---------------------------- MODULE Spec2Model ----------------------------
(***************************************************************************)
(* A model of the EVLambda evaluator: the host side of the evaluator       *)
(* (src/src/evaluator.js), the message handler of the core and the six     *)
(* evaluators of the core (src/unnamed/part_006).                          *)
(*                                                                         *)
(* EVL objects are records tagged by the field t.  Lists are chains of     *)
(* cons records ending in NIL.  Lexical frames live in a heap (a sequence  *)
(* of Frame records); the address 0 is nullDefiniteEnv.  The global        *)
(* environment is the pair of cells (value, function) that every interned  *)
(* variable of variablePackage carries.  The store also keeps, in effects,  *)
(* in accesses (see logAccess), catches (see logCatch) and pops (see       *)
(* logPop),                                                                *)
(* the names of the variables assigned so far, in the order of the         *)
(* assignments, and in stack the control stack of the stack-based          *)
(* evaluator that is running (the top is the last element).                *)
(***************************************************************************)
EXTENDS Integers, Sequences, FiniteSets, TLC

(***************************************************************************)
(* Bounds                                                                  *)
(***************************************************************************)
\* depth of the JavaScript call stack at which the host raises RangeError
MaxHostStack == 30
\* number of iterations of a trampoline loop run inside one atomic step
MaxBounces == 40
\* number of requests the host sends
MaxJobs == 3
\* number of operands of an examined call before the spreadable operand
MaxArgs == 2
\* number of parameters of the function of an examined call
MaxParameters == 3
\* number of conses of the spreadable operand of an examined call
MaxSpread == 3
\* the conses on the way from a printed object to one of its atoms
MaxDepth == 2
\* the pieces of a text that is converted to XML
MaxPieces == 4
\* the arguments of the command line
MaxArgv == 4

(***************************************************************************)
(* Scope-extent combinations and namespaces                                *)
(***************************************************************************)
LEX_SCOPE == 0
DYN_SCOPE == 1
VAL_NS == 0
FUN_NS == 1

(***************************************************************************)
(* Objects                                                                 *)
(***************************************************************************)
NULL == [t |-> "null"]
VOID == [t |-> "void"]
NIL == [t |-> "nil"]
EVLBoolean(b) == [t |-> "boolean", jsValue |-> b]
EVLNumber(n) == [t |-> "number", jsValue |-> n]
EVLString(s) == [t |-> "string", jsValue |-> s]
EVLVariable(name) == [t |-> "variable", name |-> name]
EVLCons(car, cdr) == [t |-> "cons", car |-> car, cdr |-> cdr]
EVLObjects(objects) == [t |-> "objects", objects |-> objects]
EVLPrimitiveFunction(name, arityMin, arityMax) ==
  [t |-> "primitive", jsFunction |-> name, arityMin |-> arityMin, arityMax |-> arityMax]
EVLClosure(scope, namespace, macro, parameters, rest, forms, lenv) ==
  [t |-> "closure", scope |-> scope, namespace |-> namespace, macro |-> macro,
   parameters |-> parameters, rest |-> rest, forms |-> forms, lenv |-> lenv]

primaryValue(result) ==
  IF result.t = "objects"
  THEN IF Len(result.objects) = 0 THEN VOID ELSE result.objects[1]
  ELSE result

allValues(result) ==
  IF result.t = "objects" THEN result.objects ELSE <<result>>

isEVLList(object) == object.t \in {"nil", "cons"}

RECURSIVE isProperList(_)
isProperList(object) ==
  IF object = NIL THEN TRUE
  ELSE IF object.t = "cons" THEN isProperList(object.cdr)
  ELSE FALSE

RECURSIVE listToArray(_)
listToArray(list) ==
  IF list = NIL THEN <<>> ELSE <<list.car>> \o listToArray(list.cdr)

RECURSIVE arrayToList(_, _)
\* the list of the elements of array, ending in tail
arrayToList(array, tail) ==
  IF Len(array) = 0 THEN tail
  ELSE EVLCons(array[1], arrayToList(SubSeq(array, 2, Len(array)), tail))

(***************************************************************************)
(* Outcomes of JavaScript calls: a returned value or a thrown exception,   *)
(* identified by its name, each with the store the call leaves behind.     *)
(***************************************************************************)
Return(value, st) == [ok |-> TRUE, v |-> value, st |-> st]
Throw(name, st) == [ok |-> FALSE, v |-> name, st |-> st]

\* outcomes of JavaScript calls that leave the store alone
Ok(value) == [ok |-> TRUE, v |-> value]
Err(name) == [ok |-> FALSE, v |-> name]

(***************************************************************************)
(* Global environment: the cells of the interned variables.  The null      *)
(* indices that preprocessorRef returns are -1.                            *)
(***************************************************************************)
GlobalEnvRef(namespace, variable, st) ==
  LET cell == st.variablePackage[variable.name]
      value == IF namespace = VAL_NS THEN cell.value ELSE cell.function
  IN IF value # NULL THEN Return(value, st) ELSE Throw("UnboundVariable", st)

GlobalEnvSet(namespace, variable, value, st) ==
  IF namespace = VAL_NS
  THEN Return(value, [st EXCEPT !.variablePackage[variable.name].value = value,
                                !.effects = Append(@, variable.name)])
  ELSE Return(value, [st EXCEPT !.variablePackage[variable.name].function = value,
                                !.effects = Append(@, variable.name)])

GlobalEnvPreprocessorRef(namespace, variable, st) ==
  LET cell == st.variablePackage[variable.name]
  IN <<-1, -1, IF namespace = VAL_NS THEN cell.value ELSE cell.function>>

(***************************************************************************)
(* Lexical and dynamic environments.  An environment is the address of a   *)
(* Frame in st.frames, or 0 for nullDefiniteEnv; the next of a Frame that   *)
(* is made with next undefined is -1.                                      *)
(***************************************************************************)
nullDefiniteEnv == 0

Frame(namespace, variables, values, next) ==
  [t |-> "Frame", namespace |-> namespace, variables |-> variables,
   values |-> values, next |-> next]

\* frameIndex without the test of the namespace
frameIndexAnyNamespace(frame, namespace, variable) ==
  IF \E j \in 1..Len(frame.variables) : frame.variables[j] = variable
  THEN CHOOSE j \in 1..Len(frame.variables) :
         /\ frame.variables[j] = variable
         /\ \A i \in 1..(j - 1) : frame.variables[i] # variable
  ELSE 0

\* the first j with variables[j] = variable of a frame of the namespace, or 0
frameIndex(frame, namespace, variable) ==
  IF frame.namespace = namespace
     /\ \E j \in 1..Len(frame.variables) : frame.variables[j] = variable
  THEN CHOOSE j \in 1..Len(frame.variables) :
         /\ frame.variables[j] = variable
         /\ \A i \in 1..(j - 1) : frame.variables[i] # variable
  ELSE 0

\* new Frame(...): the address of the frame and the store that holds it
newFrame(namespace, variables, values, next, st) ==
  [env |-> Len(st.frames) + 1,
   st |-> [st EXCEPT !.frames = Append(@, Frame(namespace, variables, values, next))]]

RECURSIVE FrameRef(_, _, _, _)
FrameRef(env, namespace, variable, st) ==
  IF env = nullDefiniteEnv THEN GlobalEnvRef(namespace, variable, st)
  ELSE LET j == frameIndex(st.frames[env], namespace, variable)
       IN IF j > 0 THEN Return(st.frames[env].values[j], st)
          ELSE FrameRef(st.frames[env].next, namespace, variable, st)

RECURSIVE FrameSetInCopy(_, _, _, _, _)
\* Frame.set assigning the binding in a copy of the Frame
FrameSetInCopy(env, namespace, variable, value, st) ==
  IF env = nullDefiniteEnv THEN GlobalEnvSet(namespace, variable, value, st)
  ELSE LET j == frameIndex(st.frames[env], namespace, variable)
       IN IF j > 0
          THEN Return(value, [st EXCEPT !.frames = Append(@, [@[env] EXCEPT !.values[j] = value]),
                                        !.effects = Append(@, variable.name)])
          ELSE FrameSetInCopy(st.frames[env].next, namespace, variable, value, st)

RECURSIVE FrameSet(_, _, _, _, _)
FrameSet(env, namespace, variable, value, st) ==
  IF env = nullDefiniteEnv THEN GlobalEnvSet(namespace, variable, value, st)
  ELSE LET j == frameIndex(st.frames[env], namespace, variable)
       IN IF j > 0 THEN Return(value, [st EXCEPT !.frames[env].values[j] = value,
                                                 !.effects = Append(@, variable.name)])
          ELSE FrameSet(st.frames[env].next, namespace, variable, value, st)

RECURSIVE FramePreprocessorRef(_, _, _, _, _)
FramePreprocessorRef(env, namespace, variable, i, st) ==
  IF env = nullDefiniteEnv THEN GlobalEnvPreprocessorRef(namespace, variable, st)
  ELSE LET j == frameIndex(st.frames[env], namespace, variable)
       IN IF j > 0 THEN <<i, j - 1, st.frames[env].values[j]>>
          ELSE FramePreprocessorRef(st.frames[env].next, namespace, variable, i + 1, st)

(***************************************************************************)
(* Pairing parameters with arguments.  arityMax = -1 stands for null.      *)
(***************************************************************************)
RECURSIVE spreadArgList(_, _, _)
\* the loop over the spreadable last argument: at most max elements are taken
spreadArgList(argList, values, max) ==
  IF argList = NIL THEN Ok(values)
  ELSE IF argList.t = "cons"
  THEN IF max = -1 \/ Len(values) < max
       THEN spreadArgList(argList.cdr, Append(values, argList.car), max)
       ELSE Err("TooManyArguments")
  ELSE Err("MalformedSpreadableSequenceOfObjects")

pairPrimFunParametersNoApply(args, arityMin, arityMax) ==
  IF Len(args) < arityMin THEN Err("TooFewArguments")
  ELSE IF arityMax # -1 /\ Len(args) > arityMax THEN Err("TooManyArguments")
  ELSE Ok(args)

pairPrimFunParametersApply(args, arityMin, arityMax) ==
  LET nargs == Len(args) IN
  IF arityMax # -1 /\ nargs - 1 > arityMax THEN Err("TooManyArguments")
  ELSE IF nargs = 0 \/ ~isEVLList(args[nargs])
  THEN Err("MalformedSpreadableSequenceOfObjects")
  ELSE LET spread == spreadArgList(args[nargs], SubSeq(args, 1, nargs - 1), arityMax)
       IN IF ~spread.ok THEN spread
          ELSE IF Len(spread.v) < arityMin THEN Err("TooFewArguments")
          ELSE spread

\* funcall(f, a) is the call of the function f with the arguments a.  The
\* functions of the evaluators call one another through it.
RECURSIVE funcall(_, _)

pairPrimFunParameters(apply, args, arityMin, arityMax) ==
  IF ~apply THEN pairPrimFunParametersNoApply(args, arityMin, arityMax)
  ELSE pairPrimFunParametersApply(args, arityMin, arityMax)

pairClosureParametersNoApplyNoRest(args, parameters) ==
  IF Len(args) < Len(parameters) THEN Err("TooFewArguments")
  ELSE IF Len(args) > Len(parameters) THEN Err("TooManyArguments")
  ELSE Ok(args)

pairClosureParametersNoApplyRest(args, parameters) ==
  LET nargs == Len(args)
      nparameters == Len(parameters)
  IN IF nargs < nparameters - 1 THEN Err("TooFewArguments")
     ELSE Ok(Append(SubSeq(args, 1, nparameters - 1),
                    arrayToList(SubSeq(args, nparameters, nargs), NIL)))

pairClosureParametersApplyNoRest(args, parameters) ==
  LET nargs == Len(args)
      nparameters == Len(parameters)
  IN IF nargs - 1 > nparameters THEN Err("TooManyArguments")
     ELSE IF nargs = 0 \/ ~isEVLList(args[nargs])
     THEN Err("MalformedSpreadableSequenceOfObjects")
     ELSE LET spread == spreadArgList(args[nargs], SubSeq(args, 1, nargs - 1), nparameters)
          IN IF ~spread.ok THEN spread
             ELSE IF Len(spread.v) < nparameters THEN Err("TooFewArguments")
             ELSE spread

RECURSIVE spreadArgListRest(_, _, _)
\* the loop over the spreadable last argument when the last parameter is a
\* rest parameter: <<values, the tail left for the rest parameter>>
spreadArgListRest(argList, values, max) ==
  IF argList = NIL THEN Ok(<<values, NIL>>)
  ELSE IF argList.t = "cons"
  THEN IF Len(values) < max
       THEN spreadArgListRest(argList.cdr, Append(values, argList.car), max)
       ELSE Ok(<<values, argList>>)
  ELSE Err("MalformedSpreadableSequenceOfObjects")

\* pairClosureParametersApplyRest pairing the rest parameter with the tail of
\* the spreadable argument only
pairClosureParametersApplyRestOfSpread(args, parameters) ==
  LET nargs == Len(args)
      nparameters == Len(parameters)
      nfixed == IF nargs - 1 < nparameters - 1 THEN nargs - 1 ELSE nparameters - 1
  IN IF nargs = 0 \/ ~isEVLList(args[nargs])
     THEN Err("MalformedSpreadableSequenceOfObjects")
     ELSE LET spread == spreadArgListRest(args[nargs], SubSeq(args, 1, nfixed), nparameters - 1)
          IN IF ~spread.ok THEN spread
             ELSE IF Len(spread.v[1]) < nparameters - 1 THEN Err("TooFewArguments")
             ELSE Ok(Append(spread.v[1], spread.v[2]))

pairClosureParametersApplyRest(args, parameters) ==
  LET nargs == Len(args)
      nparameters == Len(parameters)
      nfixed == IF nargs - 1 < nparameters - 1 THEN nargs - 1 ELSE nparameters - 1
  IN IF nargs = 0 \/ ~isEVLList(args[nargs])
     THEN Err("MalformedSpreadableSequenceOfObjects")
     ELSE LET spread == spreadArgListRest(args[nargs], SubSeq(args, 1, nfixed), nparameters - 1)
          IN IF ~spread.ok THEN spread
             ELSE IF Len(spread.v[1]) < nparameters - 1 THEN Err("TooFewArguments")
             ELSE Ok(Append(spread.v[1],
                            arrayToList(SubSeq(args, nfixed + 1, nargs - 1), spread.v[2])))

pairClosureParameters(apply, args, parameters, rest) ==
  IF ~apply
  THEN IF ~rest THEN pairClosureParametersNoApplyNoRest(args, parameters)
       ELSE pairClosureParametersNoApplyRest(args, parameters)
  ELSE IF ~rest THEN pairClosureParametersApplyNoRest(args, parameters)
       ELSE pairClosureParametersApplyRest(args, parameters)

(***************************************************************************)
(* Form analyzer.  An analyzer returns the parts of the form, or the       *)
(* FormAnalyzerError it throws.                                            *)
(***************************************************************************)
\* checkCons n times, then checkEmptyList: the n elements after the head
analyzeFixed(form, n) ==
  IF isProperList(form.cdr) /\ Len(listToArray(form.cdr)) = n
  THEN Ok(listToArray(form.cdr))
  ELSE Err("FormAnalyzerError")

analyzeQuote(form) == analyzeFixed(form, 1)
analyzeIf(form) == analyzeFixed(form, 3)
analyzeForEach(form) == analyzeFixed(form, 2)
analyzeCatchErrors(form) == analyzeFixed(form, 1)

analyzeProgn(form) ==
  IF isProperList(form.cdr) THEN Ok(<<form.cdr>>) ELSE Err("FormAnalyzerError")

analyzeRef(form) ==
  LET parts == analyzeFixed(form, 1)
  IN IF parts.ok /\ parts.v[1].t # "variable" THEN Err("FormAnalyzerError") ELSE parts

analyzeSet(form) ==
  IF form.cdr.t = "cons" /\ form.cdr.car.t # "variable" THEN Err("FormAnalyzerError")
  ELSE analyzeFixed(form, 2)

RECURSIVE checkParameters(_, _)
\* the loop of checkParameterList: <<parameters, rest>>
checkParameters(list, parameters) ==
  IF list = NIL THEN Ok(<<parameters, FALSE>>)
  ELSE IF list.t = "cons" /\ list.car.t = "variable"
  THEN IF list.cdr.t = "variable"
       THEN Ok(<<parameters \o <<list.car, list.cdr>>, TRUE>>)
       ELSE checkParameters(list.cdr, Append(parameters, list.car))
  ELSE Err("FormAnalyzerError")

checkParameterList(object) ==
  IF object.t = "variable" THEN Ok(<<<<object>>, TRUE>>)
  ELSE LET checked == checkParameters(object, <<>>)
       IN IF checked.ok
             /\ \E i, j \in 1..Len(checked.v[1]) : i # j /\ checked.v[1][i] = checked.v[1][j]
          THEN Err("FormAnalyzerError")
          ELSE checked

\* <<parameters, rest, forms>>
analyzeLambda(form) ==
  IF form.cdr.t # "cons" THEN Err("FormAnalyzerError")
  ELSE LET checked == checkParameterList(form.cdr.car)
       IN IF ~checked.ok THEN checked
          ELSE IF ~isProperList(form.cdr.cdr) THEN Err("FormAnalyzerError")
          ELSE Ok(<<checked.v[1], checked.v[2], form.cdr.cdr>>)

\* <<operator, operands>>
analyzeCall(mv, apply, form) ==
  IF (mv \/ apply) /\ form.cdr.t # "cons" THEN Err("FormAnalyzerError")
  ELSE LET cons == IF mv \/ apply THEN form.cdr ELSE form
       IN IF isProperList(cons.cdr) THEN Ok(<<cons.car, cons.cdr>>)
          ELSE Err("FormAnalyzerError")

(***************************************************************************)
(* The switch on form.car that the evaluators share: the kind of the form  *)
(* and the constant arguments the case passes on.                          *)
(***************************************************************************)
formCase(form) ==
  LET name == IF form.car.t = "variable" THEN form.car.name ELSE ""
      case(kind, scope, namespace, flag1, flag2) ==
        [kind |-> kind, scope |-> scope, namespace |-> namespace,
         macro |-> flag1, mv |-> flag1, apply |-> flag2]
  IN CASE name = "quote" -> case("quote", LEX_SCOPE, VAL_NS, FALSE, FALSE)
       [] name = "progn" -> case("progn", LEX_SCOPE, VAL_NS, FALSE, FALSE)
       [] name = "if" -> case("if", LEX_SCOPE, VAL_NS, FALSE, FALSE)
       [] name = "_vlambda" -> case("lambda", LEX_SCOPE, VAL_NS, FALSE, FALSE)
       [] name = "_mlambda" -> case("lambda", LEX_SCOPE, VAL_NS, TRUE, FALSE)
       [] name = "_flambda" -> case("lambda", LEX_SCOPE, FUN_NS, FALSE, FALSE)
       [] name = "_dlambda" -> case("lambda", DYN_SCOPE, VAL_NS, FALSE, FALSE)
       [] name = "vref" -> case("ref", LEX_SCOPE, VAL_NS, FALSE, FALSE)
       [] name = "vset!" -> case("set", LEX_SCOPE, VAL_NS, FALSE, FALSE)
       [] name = "fref" -> case("ref", LEX_SCOPE, FUN_NS, FALSE, FALSE)
       [] name = "fset!" -> case("set", LEX_SCOPE, FUN_NS, FALSE, FALSE)
       [] name = "dref" -> case("ref", DYN_SCOPE, VAL_NS, FALSE, FALSE)
       [] name = "dset!" -> case("set", DYN_SCOPE, VAL_NS, FALSE, FALSE)
       [] name = "_for-each" -> case("forEach", LEX_SCOPE, VAL_NS, FALSE, FALSE)
       [] name = "_catch-errors" -> case("catchErrors", LEX_SCOPE, VAL_NS, FALSE, FALSE)
       [] name = "apply" -> case("call", LEX_SCOPE, VAL_NS, FALSE, TRUE)
       [] name = "multiple-value-call" -> case("call", LEX_SCOPE, VAL_NS, TRUE, FALSE)
       [] name = "multiple-value-apply" -> case("call", LEX_SCOPE, VAL_NS, TRUE, TRUE)
       [] OTHER -> case("call", LEX_SCOPE, VAL_NS, FALSE, FALSE)

(***************************************************************************)
(* Primitive functions                                                     *)
(***************************************************************************)
\* name :> <<arityMin, arityMax>>
primitiveFunctions ==
  [name \in {"values", "cons", "car", "cdr", "_+", "_-", "=", "error"} |->
     CASE name = "values" -> <<0, -1>>
       [] name \in {"car", "cdr", "error"} -> <<1, 1>>
       [] OTHER -> <<2, 2>>]

\* checkType(args, n, constructor) fails
typeError(args, n, type) == args[n].t # type

jsFunction(name, args, st) ==
  CASE name = "values" -> Return(EVLObjects(args), st)
    [] name = "cons" -> Return(EVLCons(args[1], args[2]), st)
    [] name = "car" ->
         IF typeError(args, 1, "cons") THEN Throw("EvaluatorError", st)
         ELSE Return(args[1].car, st)
    [] name = "cdr" ->
         IF typeError(args, 1, "cons") THEN Throw("EvaluatorError", st)
         ELSE Return(args[1].cdr, st)
    [] name \in {"_+", "_-", "="} ->
         IF typeError(args, 1, "number") \/ typeError(args, 2, "number")
         THEN Throw("EvaluatorError", st)
         ELSE LET x == args[1].jsValue
                  y == args[2].jsValue
              IN Return(CASE name = "_+" -> EVLNumber(x + y)
                          [] name = "_-" -> EVLNumber(x - y)
                          [] OTHER -> EVLBoolean(x = y), st)
    [] name = "error" ->
         IF typeError(args, 1, "string") THEN Throw("EvaluatorError", st)
         ELSE Throw("Error", st)

(***************************************************************************)
(* Plain recursive evaluator.  d is the depth of the nested calls; the     *)
(* host raises RangeError when the call stack is exhausted.                *)
(***************************************************************************)

plainrecEvalCatchErrors(form, lenv, denv, st, d) ==
  LET parts == analyzeCatchErrors(form) IN
  IF ~parts.ok THEN Throw(parts.v, st)
  ELSE LET try == funcall("plainrecEvalForm", <<parts.v[1], lenv, denv, st, d + 1>>)
       IN IF ~try.ok THEN Return(EVLString(try.v), try.st)
          ELSE Return(VOID, try.st)

plainrecEvalCall(mv, apply, form, lenv, denv, st, d) ==
  LET parts == analyzeCall(mv, apply, form) IN
  IF ~parts.ok THEN Throw(parts.v, st)
  ELSE LET operator == parts.v[1]
           evalOperator == IF operator.t = "variable"
                           THEN FrameRef(lenv, FUN_NS, operator, st)
                           ELSE funcall("plainrecEvalForm", <<operator, lenv, denv, st, d + 1>>)
       IN IF ~evalOperator.ok THEN evalOperator
          ELSE LET fn == primaryValue(evalOperator.v)
                   macro == operator.t = "variable" /\ fn.t = "closure" /\ fn.macro
                   args == funcall("plainrecEvalOperands", <<mv, macro, parts.v[2], <<>>,
                                                lenv, denv, evalOperator.st, d + 1>>)
               IN IF ~args.ok THEN args
                  ELSE funcall("plainrecInvokeFun", <<apply, macro, fn, args.v, lenv, denv,
                                         args.st, d + 1>>)

plainrecEvalForm(form, lenv, denv, st, d) ==
  IF d > MaxHostStack THEN Throw("RangeError", st)
  ELSE IF form = NIL THEN Throw("EvaluatorError", st)
  ELSE IF form.t = "variable" THEN FrameRef(lenv, VAL_NS, form, st)
  ELSE IF form.t # "cons" THEN Return(form, st)
  ELSE LET case == formCase(form) IN
    CASE case.kind = "quote" ->
           LET parts == analyzeQuote(form)
           IN IF parts.ok THEN Return(parts.v[1], st) ELSE Throw(parts.v, st)
      [] case.kind = "progn" ->
           LET parts == analyzeProgn(form)
           IN IF parts.ok THEN funcall("plainrecEvalForms", <<parts.v[1], lenv, denv, st, d + 1>>)
              ELSE Throw(parts.v, st)
      [] case.kind = "if" ->
           LET parts == analyzeIf(form) IN
           IF ~parts.ok THEN Throw(parts.v, st)
           ELSE LET test == funcall("plainrecEvalForm", <<parts.v[1], lenv, denv, st, d + 1>>) IN
                IF ~test.ok THEN test
                ELSE IF primaryValue(test.v) = EVLBoolean(TRUE)
                THEN funcall("plainrecEvalForm", <<parts.v[2], lenv, denv, test.st, d + 1>>)
                ELSE IF primaryValue(test.v) = EVLBoolean(FALSE)
                THEN funcall("plainrecEvalForm", <<parts.v[3], lenv, denv, test.st, d + 1>>)
                ELSE Throw("EvaluatorError", test.st)
      [] case.kind = "lambda" ->
           LET parts == analyzeLambda(form)
           IN IF parts.ok
              THEN Return(EVLClosure(case.scope, case.namespace, case.macro,
                                     parts.v[1], parts.v[2], parts.v[3], lenv), st)
              ELSE Throw(parts.v, st)
      [] case.kind = "ref" ->
           LET parts == analyzeRef(form)
           IN IF ~parts.ok THEN Throw(parts.v, st)
              ELSE FrameRef(IF case.scope = LEX_SCOPE THEN lenv ELSE denv,
                            case.namespace, parts.v[1], st)
      [] case.kind = "set" ->
           LET parts == analyzeSet(form) IN
           IF ~parts.ok THEN Throw(parts.v, st)
           ELSE LET value == funcall("plainrecEvalForm", <<parts.v[2], lenv, denv, st, d + 1>>)
                IN IF ~value.ok THEN value
                   ELSE FrameSet(IF case.scope = LEX_SCOPE THEN lenv ELSE denv,
                                 case.namespace, parts.v[1], primaryValue(value.v),
                                 value.st)
      [] case.kind = "forEach" -> Throw("EvaluatorError", st)
      [] case.kind = "catchErrors" -> plainrecEvalCatchErrors(form, lenv, denv, st, d)
      [] case.kind = "call" ->
           plainrecEvalCall(case.mv, case.apply, form, lenv, denv, st, d)

plainrecEvalForms(forms, lenv, denv, st, d) ==
  IF forms = NIL THEN Return(VOID, st)
  ELSE IF forms.cdr = NIL THEN funcall("plainrecEvalForm", <<forms.car, lenv, denv, st, d + 1>>)
  ELSE LET first == funcall("plainrecEvalForm", <<forms.car, lenv, denv, st, d + 1>>)
       IN IF ~first.ok THEN first
          ELSE funcall("plainrecEvalForms", <<forms.cdr, lenv, denv, first.st, d + 1>>)

\* plainrecEvalOperands evaluating the operands from the last to the first
plainrecEvalOperandsRightToLeft(mv, macro, operands, args, lenv, denv, st, d) ==
  IF operands = NIL THEN Return(args, st)
  ELSE IF macro THEN Return(args \o listToArray(operands), st)
  ELSE LET rest == funcall("plainrecEvalOperands", <<mv, macro, operands.cdr, <<>>,
                                                     lenv, denv, st, d + 1>>)
           result == funcall("plainrecEvalForm", <<operands.car, lenv, denv, rest.st, d + 1>>)
       IN IF ~rest.ok THEN rest
          ELSE IF ~result.ok THEN result
          ELSE Return(args \o (IF mv THEN allValues(result.v)
                               ELSE <<primaryValue(result.v)>>) \o rest.v, result.st)

plainrecEvalOperands(mv, macro, operands, args, lenv, denv, st, d) ==
  IF operands = NIL THEN Return(args, st)
  ELSE IF macro
  THEN funcall("plainrecEvalOperands", <<mv, macro, operands.cdr, Append(args, operands.car),
                            lenv, denv, st, d + 1>>)
  ELSE LET result == funcall("plainrecEvalForm", <<operands.car, lenv, denv, st, d + 1>>)
       IN IF ~result.ok THEN result
          ELSE funcall("plainrecEvalOperands", <<mv, macro, operands.cdr,
                 IF mv THEN args \o allValues(result.v)
                 ELSE Append(args, primaryValue(result.v)),
                 lenv, denv, result.st, d + 1>>)

plainrecInvokeFun(apply, macro, fn, args, lenv, denv, st, d) ==
  IF fn.t = "primitive"
  THEN LET values == funcall("pairPrimFunParameters", <<apply, args, fn.arityMin, fn.arityMax>>)
       IN IF ~values.ok THEN Throw(values.v, st)
          ELSE funcall("jsFunction", <<fn.jsFunction, values.v, st>>)
  ELSE IF fn.t = "closure"
  THEN LET values == funcall("pairClosureParameters", <<apply, args, fn.parameters, fn.rest>>) IN
       IF ~values.ok THEN Throw(values.v, st)
       ELSE IF fn.scope = LEX_SCOPE
       THEN LET elenv == newFrame(fn.namespace, fn.parameters, values.v, fn.lenv, st) IN
            IF macro
            THEN LET expansion == funcall("plainrecEvalForms", <<fn.forms, elenv.env, denv,
                                                    elenv.st, d + 1>>)
                 IN IF ~expansion.ok THEN expansion
                    ELSE funcall("plainrecEvalForm", <<primaryValue(expansion.v), lenv, denv,
                                          expansion.st, d + 1>>)
            ELSE funcall("plainrecEvalForms", <<fn.forms, elenv.env, denv, elenv.st, d + 1>>)
       ELSE LET edenv == newFrame(fn.namespace, fn.parameters, values.v, denv, st)
            IN funcall("plainrecEvalForms", <<fn.forms, fn.lenv, edenv.env, edenv.st, d + 1>>)
  ELSE Throw("EvaluatorError", st)

plainrecEval(form, st) ==
  funcall("plainrecEvalForm", <<form, nullDefiniteEnv, nullDefiniteEnv, st, 1>>)

(***************************************************************************)
(* The package of interned variables, as it is when the core is loaded     *)
(***************************************************************************)
specialVariables ==
  {"not", "and", "or", "quote", "quasiquote", "unquote", "unquote-splicing",
   "progn", "if", "_vlambda", "_mlambda", "mlambda", "_flambda", "_dlambda",
   "vref", "vset!", "fref", "fset!", "dref", "dset!", "_for-each",
   "_catch-errors", "apply", "multiple-value-call", "multiple-value-apply"}

\* internVariable making a new variable for a name that is interned already
internVariableAnew(name, st) ==
  [st EXCEPT !.variablePackage =
     [n \in DOMAIN @ \cup {name} |->
        IF n = name THEN [value |-> NULL, function |-> NULL] ELSE @[n]]]

\* the EVLVariable of a name is the element of variablePackage for the name,
\* which holds the global value and the global function of the variable
internVariable(name, st) ==
  IF name \in DOMAIN st.variablePackage THEN st
  ELSE [st EXCEPT !.variablePackage =
          [n \in DOMAIN @ \cup {name} |->
             IF n = name THEN [value |-> NULL, function |-> NULL] ELSE @[n]]]

\* the store of a core that has just been loaded
loadedCore ==
  [variablePackage |->
     [name \in specialVariables \cup DOMAIN primitiveFunctions |->
        [value |-> NULL,
         function |-> IF name \in DOMAIN primitiveFunctions
                      THEN EVLPrimitiveFunction(name, primitiveFunctions[name][1],
                                                primitiveFunctions[name][2])
                      ELSE NULL]],
   frames |-> <<>>,
   stack |-> <<>>,
   effects |-> <<>>,
   accesses |-> <<>>,
   catches |-> <<>>,
   pops |-> <<>>]

(***************************************************************************)
(* CPS evaluator.  A continuation, a JavaScript closure in the source, is  *)
(* a record tagged by the field c with the variables the closure captures. *)
(***************************************************************************)
cpsEndCont == [c |-> "EndCont"]


cpsEvalCatchErrors(form, lenv, denv, k, st, d) ==
  LET parts == analyzeCatchErrors(form) IN
  IF ~parts.ok THEN Throw(parts.v, st)
  ELSE LET try == funcall("cpsEvalForm", <<parts.v[1], lenv, denv, cpsEndCont, st, d + 1>>)
       IN IF ~try.ok THEN funcall("cpsInvokeCont", <<k, EVLString(try.v), try.st, d + 1>>)
          ELSE funcall("cpsInvokeCont", <<k, VOID, try.st, d + 1>>)

cpsEvalCall(mv, apply, form, lenv, denv, k, st, d) ==
  LET parts == analyzeCall(mv, apply, form) IN
  IF ~parts.ok THEN Throw(parts.v, st)
  ELSE LET operator == parts.v[1]
           cont == [c |-> "OperatorCont", mv |-> mv, apply |-> apply,
                    operator |-> operator, operands |-> parts.v[2],
                    lenv |-> lenv, denv |-> denv, k |-> k]
       IN IF operator.t = "variable"
          THEN LET fn == FrameRef(lenv, FUN_NS, operator, st)
               IN IF ~fn.ok THEN fn ELSE funcall("cpsInvokeCont", <<cont, fn.v, st, d + 1>>)
          ELSE funcall("cpsEvalForm", <<operator, lenv, denv, cont, st, d + 1>>)

cpsEvalForm(form, lenv, denv, k, st, d) ==
  IF d > MaxHostStack THEN Throw("RangeError", st)
  ELSE IF form = NIL THEN Throw("EvaluatorError", st)
  ELSE IF form.t = "variable"
  THEN LET value == FrameRef(lenv, VAL_NS, form, st)
       IN IF ~value.ok THEN value ELSE funcall("cpsInvokeCont", <<k, value.v, st, d + 1>>)
  ELSE IF form.t # "cons" THEN funcall("cpsInvokeCont", <<k, form, st, d + 1>>)
  ELSE LET case == formCase(form) IN
    CASE case.kind = "quote" ->
           LET parts == analyzeQuote(form)
           IN IF parts.ok THEN funcall("cpsInvokeCont", <<k, parts.v[1], st, d + 1>>)
              ELSE Throw(parts.v, st)
      [] case.kind = "progn" ->
           LET parts == analyzeProgn(form)
           IN IF parts.ok THEN funcall("cpsEvalForms", <<parts.v[1], lenv, denv, k, st, d + 1>>)
              ELSE Throw(parts.v, st)
      [] case.kind = "if" ->
           LET parts == analyzeIf(form)
           IN IF ~parts.ok THEN Throw(parts.v, st)
              ELSE funcall("cpsEvalForm", <<parts.v[1], lenv, denv,
                     [c |-> "IfTestFormCont", thenForm |-> parts.v[2],
                      elseForm |-> parts.v[3], lenv |-> lenv, denv |-> denv, k |-> k],
                     st, d + 1>>)
      [] case.kind = "lambda" ->
           LET parts == analyzeLambda(form)
           IN IF parts.ok
              THEN funcall("cpsInvokeCont", <<k,
                     EVLClosure(case.scope, case.namespace, case.macro,
                                parts.v[1], parts.v[2], parts.v[3], lenv), st, d + 1>>)
              ELSE Throw(parts.v, st)
      [] case.kind = "ref" ->
           LET parts == analyzeRef(form) IN
           IF ~parts.ok THEN Throw(parts.v, st)
           ELSE LET value == FrameRef(IF case.scope = LEX_SCOPE THEN lenv ELSE denv,
                                      case.namespace, parts.v[1], st)
                IN IF ~value.ok THEN value ELSE funcall("cpsInvokeCont", <<k, value.v, st, d + 1>>)
      [] case.kind = "set" ->
           LET parts == analyzeSet(form)
           IN IF ~parts.ok THEN Throw(parts.v, st)
              ELSE funcall("cpsEvalForm", <<parts.v[2], lenv, denv,
                     [c |-> "SetValueFormCont", scope |-> case.scope,
                      namespace |-> case.namespace, variable |-> parts.v[1],
                      lenv |-> lenv, denv |-> denv, k |-> k],
                     st, d + 1>>)
      [] case.kind = "forEach" ->
           LET parts == analyzeForEach(form)
           IN IF ~parts.ok THEN Throw(parts.v, st)
              ELSE funcall("cpsEvalForm", <<parts.v[1], lenv, denv,
                     [c |-> "ForEachFunctionFormCont", listForm |-> parts.v[2],
                      lenv |-> lenv, denv |-> denv, k |-> k],
                     st, d + 1>>)
      [] case.kind = "catchErrors" -> cpsEvalCatchErrors(form, lenv, denv, k, st, d)
      [] case.kind = "call" ->
           cpsEvalCall(case.mv, case.apply, form, lenv, denv, k, st, d)

\* the bodies of the continuations, named as the comments of the source name them
cpsInvokeCont(k, result, st, d) ==
  IF d > MaxHostStack THEN Throw("RangeError", st)
  ELSE CASE k.c = "EndCont" -> Return(result, st)
    [] k.c = "ButLastFormCont" ->
         funcall("cpsEvalForms", <<k.forms.cdr, k.lenv, k.denv, k.k, st, d + 1>>)
    [] k.c = "IfTestFormCont" ->
         IF primaryValue(result) = EVLBoolean(TRUE)
         THEN funcall("cpsEvalForm", <<k.thenForm, k.lenv, k.denv, k.k, st, d + 1>>)
         ELSE IF primaryValue(result) = EVLBoolean(FALSE)
         THEN funcall("cpsEvalForm", <<k.elseForm, k.lenv, k.denv, k.k, st, d + 1>>)
         ELSE Throw("EvaluatorError", st)
    [] k.c = "SetValueFormCont" ->
         LET set == FrameSet(IF k.scope = LEX_SCOPE THEN k.lenv ELSE k.denv,
                             k.namespace, k.variable, primaryValue(result), st)
         IN funcall("cpsInvokeCont", <<k.k, set.v, set.st, d + 1>>)
    [] k.c = "ForEachFunctionFormCont" ->
         IF primaryValue(result).t \notin {"primitive", "closure"}
         THEN Throw("EvaluatorError", st)
         ELSE funcall("cpsEvalForm", <<k.listForm, k.lenv, k.denv,
                [c |-> "ForEachListFormCont", fn |-> primaryValue(result),
                 lenv |-> k.lenv, denv |-> k.denv, k |-> k.k],
                st, d + 1>>)
    [] k.c = "ForEachListFormCont" ->
         funcall("cpsForEachLoop", <<k.fn, primaryValue(result), k.lenv, k.denv, k.k, st, d>>)
    [] k.c = "OperatorCont" ->
         LET fn == primaryValue(result)
             macro == k.operator.t = "variable" /\ fn.t = "closure" /\ fn.macro
         IN funcall("cpsEvalOperands", <<k.mv, macro, k.operands, <<>>, k.lenv, k.denv,
              [c |-> "OperandsCont", apply |-> k.apply, macro |-> macro,
               fn |-> fn, lenv |-> k.lenv, denv |-> k.denv, k |-> k.k],
              st, d + 1>>)
    [] k.c = "OperandCont" ->
         funcall("cpsEvalOperands", <<k.mv, k.macro, k.operands.cdr,
           IF k.mv THEN k.args \o allValues(result)
           ELSE Append(k.args, primaryValue(result)),
           k.lenv, k.denv, k.k, st, d + 1>>)
    [] k.c = "OperandsCont" ->
         funcall("cpsInvokeFun", <<k.apply, k.macro, k.fn, result, k.lenv, k.denv, k.k, st, d + 1>>)

cpsEvalForms(forms, lenv, denv, k, st, d) ==
  IF forms = NIL THEN funcall("cpsInvokeCont", <<k, VOID, st, d + 1>>)
  ELSE IF forms.cdr = NIL THEN funcall("cpsEvalForm", <<forms.car, lenv, denv, k, st, d + 1>>)
  ELSE funcall("cpsEvalForm", <<forms.car, lenv, denv,
         [c |-> "ButLastFormCont", forms |-> forms,
          lenv |-> lenv, denv |-> denv, k |-> k],
         st, d + 1>>)

\* the while loop of ForEachListFormCont
\* the loop of ForEachListFormCont leaving after the first element
cpsForEachLoopOnce(fn, list, lenv, denv, k, st, d) ==
  IF list = NIL THEN funcall("cpsInvokeCont", <<k, VOID, st, d + 1>>)
  ELSE IF list.t = "cons"
  THEN LET once == funcall("cpsInvokeFun", <<FALSE, FALSE, fn, <<list.car>>, lenv, denv,
                                  cpsEndCont, st, d + 1>>)
       IN IF ~once.ok THEN once
          ELSE funcall("cpsInvokeCont", <<k, VOID, once.st, d + 1>>)
  ELSE Throw("EvaluatorError", st)

cpsForEachLoop(fn, list, lenv, denv, k, st, d) ==
  IF list = NIL THEN funcall("cpsInvokeCont", <<k, VOID, st, d + 1>>)
  ELSE IF list.t = "cons"
  THEN LET call == funcall("cpsInvokeFun", <<FALSE, FALSE, fn, <<list.car>>, lenv, denv,
                                  cpsEndCont, st, d + 1>>)
       IN IF ~call.ok THEN call
          ELSE funcall("cpsForEachLoop", <<fn, list.cdr, lenv, denv, k, call.st, d>>)
  ELSE Throw("EvaluatorError", st)

cpsEvalOperands(mv, macro, operands, args, lenv, denv, k, st, d) ==
  IF operands = NIL THEN funcall("cpsInvokeCont", <<k, args, st, d + 1>>)
  ELSE IF macro
  THEN funcall("cpsEvalOperands", <<mv, macro, operands.cdr, Append(args, operands.car),
                         lenv, denv, k, st, d + 1>>)
  ELSE funcall("cpsEvalForm", <<operands.car, lenv, denv,
         [c |-> "OperandCont", mv |-> mv, macro |-> macro,
          operands |-> operands, args |-> args,
          lenv |-> lenv, denv |-> denv, k |-> k],
         st, d + 1>>)

cpsInvokeFun(apply, macro, fn, args, lenv, denv, k, st, d) ==
  IF fn.t = "primitive"
  THEN LET values == funcall("pairPrimFunParameters", <<apply, args, fn.arityMin, fn.arityMax>>) IN
       IF ~values.ok THEN Throw(values.v, st)
       ELSE LET result == funcall("jsFunction", <<fn.jsFunction, values.v, st>>)
            IN IF ~result.ok THEN result
               ELSE funcall("cpsInvokeCont", <<k, result.v, result.st, d + 1>>)
  ELSE IF fn.t = "closure"
  THEN LET values == funcall("pairClosureParameters", <<apply, args, fn.parameters, fn.rest>>) IN
       IF ~values.ok THEN Throw(values.v, st)
       ELSE IF fn.scope = LEX_SCOPE
       THEN LET elenv == newFrame(fn.namespace, fn.parameters, values.v, fn.lenv, st) IN
            IF macro
            THEN LET expansion == funcall("cpsEvalForms", <<fn.forms, elenv.env, denv,
                                                 cpsEndCont, elenv.st, d + 1>>)
                 IN IF ~expansion.ok THEN expansion
                    ELSE funcall("cpsEvalForm", <<primaryValue(expansion.v), lenv, denv, k,
                                       expansion.st, d + 1>>)
            ELSE funcall("cpsEvalForms", <<fn.forms, elenv.env, denv, k, elenv.st, d + 1>>)
       ELSE LET edenv == newFrame(fn.namespace, fn.parameters, values.v, denv, st)
            IN funcall("cpsEvalForms", <<fn.forms, fn.lenv, edenv.env, k, edenv.st, d + 1>>)
  ELSE Throw("EvaluatorError", st)

cpsEval(form, st) ==
  funcall("cpsEvalForm", <<form, nullDefiniteEnv, nullDefiniteEnv, cpsEndCont, st, 1>>)

(***************************************************************************)
(* Object-oriented CPS evaluator.  A continuation is a record tagged by    *)
(* the field c with the fields of its class; every call is a tail call of  *)
(* the host, so d grows until oocpsEndCont returns.                        *)
(***************************************************************************)
oocpsEndCont == [c |-> "OOCPSEndCont"]


oocpsEvalCatchErrors(form, lenv, denv, k, st, d) ==
  LET parts == analyzeCatchErrors(form) IN
  IF ~parts.ok THEN Throw(parts.v, st)
  ELSE LET try == funcall("oocpsEvalForm", <<parts.v[1], lenv, denv, oocpsEndCont, st, d + 1>>)
       IN IF ~try.ok THEN funcall("oocpsInvokeCont", <<k, EVLString(try.v), try.st, d + 1>>)
          ELSE funcall("oocpsInvokeCont", <<k, VOID, try.st, d + 1>>)

oocpsEvalCall(mv, apply, form, lenv, denv, k, st, d) ==
  LET parts == analyzeCall(mv, apply, form) IN
  IF ~parts.ok THEN Throw(parts.v, st)
  ELSE LET operator == parts.v[1]
           cont == [c |-> "OOCPSOperatorCont", mv |-> mv, apply |-> apply,
                    operator |-> operator, operands |-> parts.v[2],
                    lenv |-> lenv, denv |-> denv, k |-> k]
       IN IF operator.t = "variable"
          THEN LET fn == FrameRef(lenv, FUN_NS, operator, st)
               IN IF ~fn.ok THEN fn ELSE funcall("oocpsInvokeCont", <<cont, fn.v, st, d + 1>>)
          ELSE funcall("oocpsEvalForm", <<operator, lenv, denv, cont, st, d + 1>>)

oocpsEvalForm(form, lenv, denv, k, st, d) ==
  IF d > MaxHostStack THEN Throw("RangeError", st)
  ELSE IF form = NIL THEN Throw("EvaluatorError", st)
  ELSE IF form.t = "variable"
  THEN LET value == FrameRef(lenv, VAL_NS, form, st)
       IN IF ~value.ok THEN value ELSE funcall("oocpsInvokeCont", <<k, value.v, st, d + 1>>)
  ELSE IF form.t # "cons" THEN funcall("oocpsInvokeCont", <<k, form, st, d + 1>>)
  ELSE LET case == formCase(form) IN
    CASE case.kind = "quote" ->
           LET parts == analyzeQuote(form)
           IN IF parts.ok THEN funcall("oocpsInvokeCont", <<k, parts.v[1], st, d + 1>>)
              ELSE Throw(parts.v, st)
      [] case.kind = "progn" ->
           LET parts == analyzeProgn(form)
           IN IF parts.ok THEN funcall("oocpsEvalForms", <<parts.v[1], lenv, denv, k, st, d + 1>>)
              ELSE Throw(parts.v, st)
      [] case.kind = "if" ->
           LET parts == analyzeIf(form)
           IN IF ~parts.ok THEN Throw(parts.v, st)
              ELSE funcall("oocpsEvalForm", <<parts.v[1], lenv, denv,
                     [c |-> "OOCPSIfTestFormCont", thenForm |-> parts.v[2],
                      elseForm |-> parts.v[3], lenv |-> lenv, denv |-> denv, k |-> k],
                     st, d + 1>>)
      [] case.kind = "lambda" ->
           LET parts == analyzeLambda(form)
           IN IF parts.ok
              THEN funcall("oocpsInvokeCont", <<k,
                     EVLClosure(case.scope, case.namespace, case.macro,
                                parts.v[1], parts.v[2], parts.v[3], lenv), st, d + 1>>)
              ELSE Throw(parts.v, st)
      [] case.kind = "ref" ->
           LET parts == analyzeRef(form) IN
           IF ~parts.ok THEN Throw(parts.v, st)
           ELSE LET value == FrameRef(IF case.scope = LEX_SCOPE THEN lenv ELSE denv,
                                      case.namespace, parts.v[1], st)
                IN IF ~value.ok THEN value ELSE funcall("oocpsInvokeCont", <<k, value.v, st, d + 1>>)
      [] case.kind = "set" ->
           LET parts == analyzeSet(form)
           IN IF ~parts.ok THEN Throw(parts.v, st)
              ELSE funcall("oocpsEvalForm", <<parts.v[2], lenv, denv,
                     [c |-> "OOCPSSetValueFormCont", scope |-> case.scope,
                      namespace |-> case.namespace, variable |-> parts.v[1],
                      lenv |-> lenv, denv |-> denv, k |-> k],
                     st, d + 1>>)
      [] case.kind = "forEach" ->
           LET parts == analyzeForEach(form)
           IN IF ~parts.ok THEN Throw(parts.v, st)
              ELSE funcall("oocpsEvalForm", <<parts.v[1], lenv, denv,
                     [c |-> "OOCPSForEachFunctionFormCont", listForm |-> parts.v[2],
                      lenv |-> lenv, denv |-> denv, k |-> k],
                     st, d + 1>>)
      [] case.kind = "catchErrors" -> oocpsEvalCatchErrors(form, lenv, denv, k, st, d)
      [] case.kind = "call" ->
           oocpsEvalCall(case.mv, case.apply, form, lenv, denv, k, st, d)

\* the invoke methods of the continuation classes
oocpsInvokeCont(k, result, st, d) ==
  IF d > MaxHostStack THEN Throw("RangeError", st)
  ELSE CASE k.c = "OOCPSEndCont" -> Return(result, st)
    [] k.c = "OOCPSButLastFormCont" ->
         funcall("oocpsEvalForms", <<k.forms.cdr, k.lenv, k.denv, k.k, st, d + 1>>)
    [] k.c = "OOCPSIfTestFormCont" ->
         IF primaryValue(result) = EVLBoolean(TRUE)
         THEN funcall("oocpsEvalForm", <<k.thenForm, k.lenv, k.denv, k.k, st, d + 1>>)
         ELSE IF primaryValue(result) = EVLBoolean(FALSE)
         THEN funcall("oocpsEvalForm", <<k.elseForm, k.lenv, k.denv, k.k, st, d + 1>>)
         ELSE Throw("EvaluatorError", st)
    [] k.c = "OOCPSSetValueFormCont" ->
         LET set == FrameSet(IF k.scope = LEX_SCOPE THEN k.lenv ELSE k.denv,
                             k.namespace, k.variable, primaryValue(result), st)
         IN funcall("oocpsInvokeCont", <<k.k, set.v, set.st, d + 1>>)
    [] k.c = "OOCPSForEachFunctionFormCont" ->
         IF primaryValue(result).t \notin {"primitive", "closure"}
         THEN Throw("EvaluatorError", st)
         ELSE funcall("oocpsEvalForm", <<k.listForm, k.lenv, k.denv,
                [c |-> "OOCPSForEachListFormCont", fn |-> primaryValue(result),
                 lenv |-> k.lenv, denv |-> k.denv, k |-> k.k],
                st, d + 1>>)
    [] k.c = "OOCPSForEachListFormCont" ->
         funcall("oocpsForEachLoop", <<k.fn, primaryValue(result), k.lenv, k.denv, k.k, st, d>>)
    [] k.c = "OOCPSOperatorCont" ->
         LET fn == primaryValue(result)
             macro == k.operator.t = "variable" /\ fn.t = "closure" /\ fn.macro
         IN funcall("oocpsEvalOperands", <<k.mv, macro, k.operands, <<>>, k.lenv, k.denv,
              [c |-> "OOCPSOperandsCont", apply |-> k.apply, macro |-> macro,
               fn |-> fn, lenv |-> k.lenv, denv |-> k.denv, k |-> k.k],
              st, d + 1>>)
    [] k.c = "OOCPSOperandCont" ->
         funcall("oocpsEvalOperands", <<k.mv, k.macro, k.operands.cdr,
           IF k.mv THEN k.args \o allValues(result)
           ELSE Append(k.args, primaryValue(result)),
           k.lenv, k.denv, k.k, st, d + 1>>)
    [] k.c = "OOCPSOperandsCont" ->
         funcall("oocpsInvokeFun", <<k.apply, k.macro, k.fn, result, k.lenv, k.denv, k.k, st, d + 1>>)

oocpsEvalForms(forms, lenv, denv, k, st, d) ==
  IF forms = NIL THEN funcall("oocpsInvokeCont", <<k, VOID, st, d + 1>>)
  ELSE IF forms.cdr = NIL THEN funcall("oocpsEvalForm", <<forms.car, lenv, denv, k, st, d + 1>>)
  ELSE funcall("oocpsEvalForm", <<forms.car, lenv, denv,
         [c |-> "OOCPSButLastFormCont", forms |-> forms,
          lenv |-> lenv, denv |-> denv, k |-> k],
         st, d + 1>>)

\* the while loop of OOCPSForEachListFormCont.invoke
oocpsForEachLoop(fn, list, lenv, denv, k, st, d) ==
  IF list = NIL THEN funcall("oocpsInvokeCont", <<k, VOID, st, d + 1>>)
  ELSE IF list.t = "cons"
  THEN LET call == funcall("oocpsInvokeFun", <<FALSE, FALSE, fn, <<list.car>>, lenv, denv,
                                  oocpsEndCont, st, d + 1>>)
       IN IF ~call.ok THEN call
          ELSE funcall("oocpsForEachLoop", <<fn, list.cdr, lenv, denv, k, call.st, d>>)
  ELSE Throw("EvaluatorError", st)

oocpsEvalOperands(mv, macro, operands, args, lenv, denv, k, st, d) ==
  IF operands = NIL THEN funcall("oocpsInvokeCont", <<k, args, st, d + 1>>)
  ELSE IF macro
  THEN funcall("oocpsEvalOperands", <<mv, macro, operands.cdr, Append(args, operands.car),
                         lenv, denv, k, st, d + 1>>)
  ELSE funcall("oocpsEvalForm", <<operands.car, lenv, denv,
         [c |-> "OOCPSOperandCont", mv |-> mv, macro |-> macro,
          operands |-> operands, args |-> args,
          lenv |-> lenv, denv |-> denv, k |-> k],
         st, d + 1>>)

oocpsInvokeFun(apply, macro, fn, args, lenv, denv, k, st, d) ==
  IF fn.t = "primitive"
  THEN LET values == funcall("pairPrimFunParameters", <<apply, args, fn.arityMin, fn.arityMax>>) IN
       IF ~values.ok THEN Throw(values.v, st)
       ELSE LET result == funcall("jsFunction", <<fn.jsFunction, values.v, st>>)
            IN IF ~result.ok THEN result
               ELSE funcall("oocpsInvokeCont", <<k, result.v, result.st, d + 1>>)
  ELSE IF fn.t = "closure"
  THEN LET values == funcall("pairClosureParameters", <<apply, args, fn.parameters, fn.rest>>) IN
       IF ~values.ok THEN Throw(values.v, st)
       ELSE IF fn.scope = LEX_SCOPE
       THEN LET elenv == newFrame(fn.namespace, fn.parameters, values.v, fn.lenv, st) IN
            IF macro
            THEN LET expansion == funcall("oocpsEvalForms", <<fn.forms, elenv.env, denv,
                                                 oocpsEndCont, elenv.st, d + 1>>)
                 IN IF ~expansion.ok THEN expansion
                    ELSE funcall("oocpsEvalForm", <<primaryValue(expansion.v), lenv, denv, k,
                                       expansion.st, d + 1>>)
            ELSE funcall("oocpsEvalForms", <<fn.forms, elenv.env, denv, k, elenv.st, d + 1>>)
       ELSE LET edenv == newFrame(fn.namespace, fn.parameters, values.v, denv, st)
            IN funcall("oocpsEvalForms", <<fn.forms, fn.lenv, edenv.env, k, edenv.st, d + 1>>)
  ELSE Throw("EvaluatorError", st)

oocpsEval(form, st) ==
  funcall("oocpsEvalForm", <<form, nullDefiniteEnv, nullDefiniteEnv, oocpsEndCont, st, 1>>)

(***************************************************************************)
(* Stack-based object-oriented CPS evaluator.  The control stack holds     *)
(* continuations and the frames of the dynamic environment.                *)
(***************************************************************************)
\* a continuation of a stack-based evaluator: an instance of class with its fields
Cont(class, fields) == [t |-> "Cont", c |-> class] @@ fields
sboocpsEndCont == [t |-> "Cont", c |-> "SBOOCPSEndCont"]

kStackPush(element, st) == [st EXCEPT !.stack = Append(@, element)]

\* the index of the topmost continuation (0 if there is none)
topCont(stack) ==
  IF \E i \in 1..Len(stack) : stack[i].t = "Cont"
  THEN CHOOSE i \in 1..Len(stack) :
         stack[i].t = "Cont" /\ \A j \in (i + 1)..Len(stack) : stack[j].t # "Cont"
  ELSE 0

\* the store with one more element of pops, the history of the popping loops
\* of invokeCont, popCont and handleError: the method, the number of end
\* continuations on the stack when the loop starts, and the index of the
\* element at which it stops (0 if there is none)
logPop(method, stack, stop, st) ==
  [st EXCEPT !.pops = Append(@,
     [method |-> method,
      ends |-> Cardinality({i \in DOMAIN stack :
                 /\ stack[i].t = "Cont"
                 /\ stack[i].c \in {"SBOOCPSEndCont", "TrampolineEndCont",
                                    "TrampolineppEndCont"}}),
      stop |-> stop])]

\* the index of the topmost Frame that binds the variable (0 if there is none)
topBinding(stack, namespace, variable) ==
  LET binds(i) == stack[i].t = "Frame" /\ frameIndex(stack[i], namespace, variable) > 0
  IN IF \E i \in 1..Len(stack) : binds(i)
     THEN CHOOSE i \in 1..Len(stack) :
            binds(i) /\ \A j \in (i + 1)..Len(stack) : ~binds(j)
     ELSE 0

\* kStack.ref that sees no Frame of the stack
kStackRefGlobalOnly(namespace, variable, st) == GlobalEnvRef(namespace, variable, st)

kStackRef(namespace, variable, st) ==
  LET i == topBinding(st.stack, namespace, variable)
  IN IF i > 0
     THEN Return(st.stack[i].values[frameIndex(st.stack[i], namespace, variable)], st)
     ELSE GlobalEnvRef(namespace, variable, st)

kStackSet(namespace, variable, value, st) ==
  LET i == topBinding(st.stack, namespace, variable)
  IN IF i > 0
     THEN Return(value,
            [st EXCEPT !.stack[i].values[frameIndex(st.stack[i], namespace, variable)] = value,
                       !.effects = Append(@, variable.name)])
     ELSE GlobalEnvSet(namespace, variable, value, st)


\* the store with one more element of catches, the history of the catch
\* clauses of sboocpsEvalCatchErrors that were executed: the size recorded on
\* entry and the continuation that was on top of the stack then, the length
\* of the stack when the error is caught, and the stack that trim leaves
logCatch(kStackSize, entry, caught, trimmed) ==
  LET top(stack) == IF topCont(stack) = 0 THEN <<0, NULL>>
                    ELSE <<topCont(stack), stack[topCont(stack)]>>
  IN [trimmed EXCEPT !.catches = Append(@,
        [kStackSize |-> kStackSize,
         entryCont |-> top(entry.stack),
         length |-> Len(caught.stack),
         trimmed |-> Len(trimmed.stack),
         nextCont |-> top(trimmed.stack)])]

\* SBOOCPSControlStack.trim: the loop pops until the length is size, and does
\* not end when the stack is shorter than size
trim(size, st) ==
  IF Len(st.stack) >= size THEN Return(VOID, [st EXCEPT !.stack = SubSeq(@, 1, size)])
  ELSE Throw("Diverges", [st EXCEPT !.stack = <<>>])

\* sboocpsEvalCatchErrors recording the size of the stack after the push of
\* the end continuation
sboocpsEvalCatchErrorsSizeAfterPush(form, lenv, st, d) ==
  LET parts == analyzeCatchErrors(form) IN
  IF ~parts.ok THEN Throw(parts.v, st)
  ELSE LET kStackSize == Len(st.stack) + 1
           try == funcall("sboocpsEvalForm", <<parts.v[1], lenv, kStackPush(sboocpsEndCont, st), d + 1>>)
           trimmed == trim(kStackSize, try.st)
       IN IF ~try.ok
          THEN IF ~trimmed.ok THEN trimmed
               ELSE funcall("sboocpsInvokeCont", <<EVLString(try.v),
                      logCatch(kStackSize, st, try.st, trimmed.st), d + 1>>)
          ELSE funcall("sboocpsInvokeCont", <<VOID, try.st, d + 1>>)

sboocpsEvalCatchErrors(form, lenv, st, d) ==
  LET parts == analyzeCatchErrors(form) IN
  IF ~parts.ok THEN Throw(parts.v, st)
  ELSE LET kStackSize == Len(st.stack)
           try == funcall("sboocpsEvalForm", <<parts.v[1], lenv, kStackPush(sboocpsEndCont, st), d + 1>>)
           trimmed == trim(kStackSize, try.st)
       IN IF ~try.ok
          THEN IF ~trimmed.ok THEN trimmed
               ELSE funcall("sboocpsInvokeCont", <<EVLString(try.v),
                      logCatch(kStackSize, st, try.st, trimmed.st), d + 1>>)
          ELSE funcall("sboocpsInvokeCont", <<VOID, try.st, d + 1>>)

sboocpsEvalCall(mv, apply, form, lenv, st, d) ==
  LET parts == analyzeCall(mv, apply, form) IN
  IF ~parts.ok THEN Throw(parts.v, st)
  ELSE LET operator == parts.v[1]
           pushed == kStackPush(Cont("SBOOCPSOperatorCont",
                       [mv |-> mv, apply |-> apply, operator |-> operator,
                        operands |-> parts.v[2], lenv |-> lenv]), st)
       IN IF operator.t = "variable"
          THEN LET fn == FrameRef(lenv, FUN_NS, operator, pushed)
               IN IF ~fn.ok THEN fn ELSE funcall("sboocpsInvokeCont", <<fn.v, pushed, d + 1>>)
          ELSE funcall("sboocpsEvalForm", <<operator, lenv, pushed, d + 1>>)

sboocpsEvalForm(form, lenv, st, d) ==
  IF d > MaxHostStack THEN Throw("RangeError", st)
  ELSE IF form = NIL THEN Throw("EvaluatorError", st)
  ELSE IF form.t = "variable"
  THEN LET value == FrameRef(lenv, VAL_NS, form, st)
       IN IF ~value.ok THEN value ELSE funcall("sboocpsInvokeCont", <<value.v, st, d + 1>>)
  ELSE IF form.t # "cons" THEN funcall("sboocpsInvokeCont", <<form, st, d + 1>>)
  ELSE LET case == formCase(form) IN
    CASE case.kind = "quote" ->
           LET parts == analyzeQuote(form)
           IN IF parts.ok THEN funcall("sboocpsInvokeCont", <<parts.v[1], st, d + 1>>)
              ELSE Throw(parts.v, st)
      [] case.kind = "progn" ->
           LET parts == analyzeProgn(form)
           IN IF parts.ok THEN funcall("sboocpsEvalForms", <<parts.v[1], lenv, st, d + 1>>)
              ELSE Throw(parts.v, st)
      [] case.kind = "if" ->
           LET parts == analyzeIf(form)
           IN IF ~parts.ok THEN Throw(parts.v, st)
              ELSE funcall("sboocpsEvalForm", <<parts.v[1], lenv,
                     kStackPush(Cont("SBOOCPSIfTestFormCont",
                       [thenForm |-> parts.v[2], elseForm |-> parts.v[3],
                        lenv |-> lenv]), st), d + 1>>)
      [] case.kind = "lambda" ->
           LET parts == analyzeLambda(form)
           IN IF parts.ok
              THEN funcall("sboocpsInvokeCont", <<
                     EVLClosure(case.scope, case.namespace, case.macro,
                                parts.v[1], parts.v[2], parts.v[3], lenv), st, d + 1>>)
              ELSE Throw(parts.v, st)
      [] case.kind = "ref" ->
           LET parts == analyzeRef(form) IN
           IF ~parts.ok THEN Throw(parts.v, st)
           ELSE LET value == IF case.scope = LEX_SCOPE
                             THEN FrameRef(lenv, case.namespace, parts.v[1], st)
                             ELSE kStackRef(case.namespace, parts.v[1], st)
                IN IF ~value.ok THEN value ELSE funcall("sboocpsInvokeCont", <<value.v, st, d + 1>>)
      [] case.kind = "set" ->
           LET parts == analyzeSet(form)
           IN IF ~parts.ok THEN Throw(parts.v, st)
              ELSE funcall("sboocpsEvalForm", <<parts.v[2], lenv,
                     kStackPush(Cont("SBOOCPSSetValueFormCont",
                       [scope |-> case.scope, namespace |-> case.namespace,
                        variable |-> parts.v[1], lenv |-> lenv]), st), d + 1>>)
      [] case.kind = "forEach" ->
           LET parts == analyzeForEach(form)
           IN IF ~parts.ok THEN Throw(parts.v, st)
              ELSE funcall("sboocpsEvalForm", <<parts.v[1], lenv,
                     kStackPush(Cont("SBOOCPSForEachFunctionFormCont",
                       [listForm |-> parts.v[2], lenv |-> lenv]), st), d + 1>>)
      [] case.kind = "catchErrors" -> sboocpsEvalCatchErrors(form, lenv, st, d)
      [] case.kind = "call" -> sboocpsEvalCall(case.mv, case.apply, form, lenv, st, d)

\* kStack.invokeCont: pop down to the topmost continuation and invoke it
sboocpsInvokeCont(result, st0, d) ==
  LET k == st0.stack[topCont(st0.stack)]
      st == logPop("invokeCont", st0.stack, topCont(st0.stack),
                   [st0 EXCEPT !.stack = SubSeq(@, 1, topCont(st0.stack) - 1)])
  IN IF d > MaxHostStack THEN Throw("RangeError", st0)
  ELSE IF topCont(st0.stack) = 0
  THEN Throw("Diverges", logPop("invokeCont", st0.stack, 0, [st0 EXCEPT !.stack = <<>>]))
  ELSE CASE k.c = "SBOOCPSEndCont" -> Return(result, st)
    [] k.c = "SBOOCPSButLastFormCont" ->
         funcall("sboocpsEvalForms", <<k.forms.cdr, k.lenv, st, d + 1>>)
    [] k.c = "SBOOCPSIfTestFormCont" ->
         IF primaryValue(result) = EVLBoolean(TRUE)
         THEN funcall("sboocpsEvalForm", <<k.thenForm, k.lenv, st, d + 1>>)
         ELSE IF primaryValue(result) = EVLBoolean(FALSE)
         THEN funcall("sboocpsEvalForm", <<k.elseForm, k.lenv, st, d + 1>>)
         ELSE Throw("EvaluatorError", st)
    [] k.c = "SBOOCPSSetValueFormCont" ->
         LET set == IF k.scope = LEX_SCOPE
                    THEN FrameSet(k.lenv, k.namespace, k.variable, primaryValue(result), st)
                    ELSE kStackSet(k.namespace, k.variable, primaryValue(result), st)
         IN funcall("sboocpsInvokeCont", <<set.v, set.st, d + 1>>)
    [] k.c = "SBOOCPSForEachFunctionFormCont" ->
         IF primaryValue(result).t \notin {"primitive", "closure"}
         THEN Throw("EvaluatorError", st)
         ELSE funcall("sboocpsEvalForm", <<k.listForm, k.lenv,
                kStackPush(Cont("SBOOCPSForEachListFormCont",
                  [fn |-> primaryValue(result), lenv |-> k.lenv]), st), d + 1>>)
    [] k.c = "SBOOCPSForEachListFormCont" ->
         funcall("sboocpsForEachLoop", <<k.fn, primaryValue(result), k.lenv, st, d>>)
    [] k.c = "SBOOCPSOperatorCont" ->
         LET fn == primaryValue(result)
             macro == k.operator.t = "variable" /\ fn.t = "closure" /\ fn.macro
         IN funcall("sboocpsEvalOperands", <<k.mv, macro, k.operands, <<>>, k.lenv,
              kStackPush(Cont("SBOOCPSOperandsCont",
                [apply |-> k.apply, macro |-> macro, fn |-> fn, lenv |-> k.lenv]), st),
              d + 1>>)
    [] k.c = "SBOOCPSOperandCont" ->
         funcall("sboocpsEvalOperands", <<k.mv, k.macro, k.operands.cdr,
           IF k.mv THEN k.args \o allValues(result)
           ELSE Append(k.args, primaryValue(result)),
           k.lenv, st, d + 1>>)
    [] k.c = "SBOOCPSOperandsCont" ->
         funcall("sboocpsInvokeFun", <<k.apply, k.macro, k.fn, result, k.lenv, st, d + 1>>)

sboocpsEvalForms(forms, lenv, st, d) ==
  IF forms = NIL THEN funcall("sboocpsInvokeCont", <<VOID, st, d + 1>>)
  ELSE IF forms.cdr = NIL THEN funcall("sboocpsEvalForm", <<forms.car, lenv, st, d + 1>>)
  ELSE funcall("sboocpsEvalForm", <<forms.car, lenv,
         kStackPush(Cont("SBOOCPSButLastFormCont",
           [forms |-> forms, lenv |-> lenv]), st), d + 1>>)

\* the while loop of SBOOCPSForEachListFormCont.invoke
sboocpsForEachLoop(fn, list, lenv, st, d) ==
  IF list = NIL THEN funcall("sboocpsInvokeCont", <<VOID, st, d + 1>>)
  ELSE IF list.t = "cons"
  THEN LET call == funcall("sboocpsInvokeFun", <<FALSE, FALSE, fn, <<list.car>>, lenv,
                                    kStackPush(sboocpsEndCont, st), d + 1>>)
       IN IF ~call.ok THEN call
          ELSE funcall("sboocpsForEachLoop", <<fn, list.cdr, lenv, call.st, d>>)
  ELSE Throw("EvaluatorError", st)

sboocpsEvalOperands(mv, macro, operands, args, lenv, st, d) ==
  IF operands = NIL THEN funcall("sboocpsInvokeCont", <<args, st, d + 1>>)
  ELSE IF macro
  THEN funcall("sboocpsEvalOperands", <<mv, macro, operands.cdr, Append(args, operands.car),
                           lenv, st, d + 1>>)
  ELSE funcall("sboocpsEvalForm", <<operands.car, lenv,
         kStackPush(Cont("SBOOCPSOperandCont",
           [mv |-> mv, macro |-> macro, operands |-> operands, args |-> args,
            lenv |-> lenv]), st), d + 1>>)

sboocpsInvokeFun(apply, macro, fn, args, lenv, st, d) ==
  IF fn.t = "primitive"
  THEN LET values == funcall("pairPrimFunParameters", <<apply, args, fn.arityMin, fn.arityMax>>) IN
       IF ~values.ok THEN Throw(values.v, st)
       ELSE LET result == funcall("jsFunction", <<fn.jsFunction, values.v, st>>)
            IN IF ~result.ok THEN result
               ELSE funcall("sboocpsInvokeCont", <<result.v, result.st, d + 1>>)
  ELSE IF fn.t = "closure"
  THEN LET values == funcall("pairClosureParameters", <<apply, args, fn.parameters, fn.rest>>) IN
       IF ~values.ok THEN Throw(values.v, st)
       ELSE IF fn.scope = LEX_SCOPE
       THEN LET elenv == newFrame(fn.namespace, fn.parameters, values.v, fn.lenv, st) IN
            IF macro
            THEN LET expansion == funcall("sboocpsEvalForms", <<fn.forms, elenv.env,
                                    kStackPush(sboocpsEndCont, elenv.st), d + 1>>)
                 IN IF ~expansion.ok THEN expansion
                    ELSE funcall("sboocpsEvalForm", <<primaryValue(expansion.v), lenv,
                                         expansion.st, d + 1>>)
            ELSE funcall("sboocpsEvalForms", <<fn.forms, elenv.env, elenv.st, d + 1>>)
       ELSE funcall("sboocpsEvalForms", <<fn.forms, fn.lenv,
              kStackPush(Frame(fn.namespace, fn.parameters, values.v, -1), st),
              d + 1>>)
  ELSE Throw("EvaluatorError", st)

\* sboocpsEval makes a new control stack; the stack is dropped when it returns
\* sboocpsEval without the push of the end continuation
sboocpsEvalWithoutEndCont(form, st) ==
  LET result == funcall("sboocpsEvalForm", <<form, nullDefiniteEnv,
                                [st EXCEPT !.stack = <<>>], 1>>)
  IN [result EXCEPT !.st.stack = <<>>]

sboocpsEval(form, st) ==
  LET result == funcall("sboocpsEvalForm", <<form, nullDefiniteEnv,
                                [st EXCEPT !.stack = <<sboocpsEndCont>>], 1>>)
  IN [result EXCEPT !.st.stack = <<>>]

(***************************************************************************)
(* Trampoline evaluator.  A bounce is an evaluation request, a result or   *)
(* the array of the arguments of a call.                                   *)
(***************************************************************************)
EvalReq(form, lenv) == [t |-> "EvalReq", form |-> form, lenv |-> lenv]
Array(elements) == [t |-> "array", elements |-> elements]
ErrorHandler == [t |-> "ErrorHandler"]
trampolineEndCont == [t |-> "Cont", c |-> "TrampolineEndCont"]

\* the index of the topmost error handler or end continuation
topHandler(stack) ==
  LET stops(i) == stack[i].t = "ErrorHandler"
                  \/ (stack[i].t = "Cont"
                      /\ stack[i].c \in {"TrampolineEndCont", "TrampolineppEndCont"})
  IN IF \E i \in 1..Len(stack) : stops(i)
     THEN CHOOSE i \in 1..Len(stack) : stops(i) /\ \A j \in (i + 1)..Len(stack) : ~stops(j)
     ELSE 0

\* kStack.handleError leaving the error handler on the stack
handleErrorKeepingMarker(exception, st) ==
  LET i == topHandler(st.stack)
      popped == logPop("handleError", st.stack, i, [st EXCEPT !.stack = SubSeq(@, 1, i - 1)])
  IN IF i = 0
     THEN Throw("Diverges", logPop("handleError", st.stack, 0, [st EXCEPT !.stack = <<>>]))
     ELSE IF st.stack[i].t = "ErrorHandler"
     THEN Return(EVLString(exception), [popped EXCEPT !.stack = st.stack])
     ELSE Throw(exception, popped)

\* kStack.handleError: the string the handler returns, or the exception again
\* (with a stack that holds neither, the loop does not end)
handleError(exception, st) ==
  LET i == topHandler(st.stack)
      popped == logPop("handleError", st.stack, i, [st EXCEPT !.stack = SubSeq(@, 1, i - 1)])
  IN IF i = 0
     THEN Throw("Diverges", logPop("handleError", st.stack, 0, [st EXCEPT !.stack = <<>>]))
     ELSE IF st.stack[i].t = "ErrorHandler" THEN Return(EVLString(exception), popped)
     ELSE Throw(exception, popped)

\* trampolineEvalForms pushing a continuation for the last form too
trampolineEvalFormsPushingLastForm(forms, lenv, st) ==
  IF forms = NIL THEN Return(VOID, st)
  ELSE Return(EvalReq(forms.car, lenv),
              kStackPush(Cont("TrampolineButLastFormCont",
                [forms |-> forms, lenv |-> lenv]), st))

trampolineEvalForms(forms, lenv, st) ==
  IF forms = NIL THEN Return(VOID, st)
  ELSE IF forms.cdr = NIL THEN Return(EvalReq(forms.car, lenv), st)
  ELSE Return(EvalReq(forms.car, lenv),
              kStackPush(Cont("TrampolineButLastFormCont",
                [forms |-> forms, lenv |-> lenv]), st))

trampolineEvalOperands(mv, macro, operands, args, lenv, st) ==
  IF operands = NIL THEN Return(Array(args), st)
  ELSE IF macro
  THEN funcall("trampolineEvalOperands", <<mv, macro, operands.cdr, Append(args, operands.car),
                              lenv, st>>)
  ELSE Return(EvalReq(operands.car, lenv),
              kStackPush(Cont("TrampolineOperandCont",
                [mv |-> mv, macro |-> macro, operands |-> operands, args |-> args,
                 lenv |-> lenv]), st))

trampolineEvalCall(mv, apply, form, lenv, st) ==
  LET parts == analyzeCall(mv, apply, form) IN
  IF ~parts.ok THEN Throw(parts.v, st)
  ELSE LET pushed == kStackPush(Cont("TrampolineOperatorCont",
                       [mv |-> mv, apply |-> apply, operator |-> parts.v[1],
                        operands |-> parts.v[2], lenv |-> lenv]), st)
       IN IF parts.v[1].t = "variable"
          THEN FrameRef(lenv, FUN_NS, parts.v[1], pushed)
          ELSE Return(EvalReq(parts.v[1], lenv), pushed)

trampolineEvalCatchErrors(form, lenv, st) ==
  LET parts == analyzeCatchErrors(form)
  IN IF ~parts.ok THEN Throw(parts.v, st)
     ELSE Return(EvalReq(parts.v[1], lenv),
                 kStackPush(Cont("TrampolineCatchErrorsTryFormCont", [lenv |-> lenv]),
                            kStackPush(ErrorHandler, st)))

trampolineEvalForm(form, lenv, st) ==
  IF form = NIL THEN Throw("EvaluatorError", st)
  ELSE IF form.t = "variable" THEN FrameRef(lenv, VAL_NS, form, st)
  ELSE IF form.t # "cons" THEN Return(form, st)
  ELSE LET case == formCase(form) IN
    CASE case.kind = "quote" ->
           LET parts == analyzeQuote(form)
           IN IF parts.ok THEN Return(parts.v[1], st) ELSE Throw(parts.v, st)
      [] case.kind = "progn" ->
           LET parts == analyzeProgn(form)
           IN IF parts.ok THEN trampolineEvalForms(parts.v[1], lenv, st)
              ELSE Throw(parts.v, st)
      [] case.kind = "if" ->
           LET parts == analyzeIf(form)
           IN IF ~parts.ok THEN Throw(parts.v, st)
              ELSE Return(EvalReq(parts.v[1], lenv),
                          kStackPush(Cont("TrampolineIfTestFormCont",
                            [thenForm |-> parts.v[2], elseForm |-> parts.v[3],
                             lenv |-> lenv]), st))
      [] case.kind = "lambda" ->
           LET parts == analyzeLambda(form)
           IN IF parts.ok
              THEN Return(EVLClosure(case.scope, case.namespace, case.macro,
                                     parts.v[1], parts.v[2], parts.v[3], lenv), st)
              ELSE Throw(parts.v, st)
      [] case.kind = "ref" ->
           LET parts == analyzeRef(form)
           IN IF ~parts.ok THEN Throw(parts.v, st)
              ELSE IF case.scope = LEX_SCOPE
              THEN FrameRef(lenv, case.namespace, parts.v[1], st)
              ELSE kStackRef(case.namespace, parts.v[1], st)
      [] case.kind = "set" ->
           LET parts == analyzeSet(form)
           IN IF ~parts.ok THEN Throw(parts.v, st)
              ELSE Return(EvalReq(parts.v[2], lenv),
                          kStackPush(Cont("TrampolineSetValueFormCont",
                            [scope |-> case.scope, namespace |-> case.namespace,
                             variable |-> parts.v[1], lenv |-> lenv]), st))
      [] case.kind = "forEach" -> Throw("EvaluatorError", st)
      [] case.kind = "catchErrors" -> trampolineEvalCatchErrors(form, lenv, st)
      [] case.kind = "call" -> trampolineEvalCall(case.mv, case.apply, form, lenv, st)

trampolineInvokeFun(apply, macro, fn, args, lenv, st) ==
  IF fn.t = "primitive"
  THEN LET values == funcall("pairPrimFunParameters", <<apply, args, fn.arityMin, fn.arityMax>>)
       IN IF ~values.ok THEN Throw(values.v, st)
          ELSE funcall("jsFunction", <<fn.jsFunction, values.v, st>>)
  ELSE IF fn.t = "closure"
  THEN LET values == funcall("pairClosureParameters", <<apply, args, fn.parameters, fn.rest>>) IN
       IF ~values.ok THEN Throw(values.v, st)
       ELSE IF fn.scope = LEX_SCOPE
       THEN LET elenv == newFrame(fn.namespace, fn.parameters, values.v, fn.lenv, st)
            IN trampolineEvalForms(fn.forms, elenv.env,
                 IF macro
                 THEN kStackPush(Cont("TrampolineMacroCont", [lenv |-> lenv]), elenv.st)
                 ELSE elenv.st)
       ELSE trampolineEvalForms(fn.forms, fn.lenv,
              kStackPush(Frame(fn.namespace, fn.parameters, values.v, -1), st))
  ELSE Throw("EvaluatorError", st)

\* the invoke methods of the continuation classes
trampolineInvoke(k, bounce, st) ==
  CASE k.c = "TrampolineButLastFormCont" -> trampolineEvalForms(k.forms.cdr, k.lenv, st)
    [] k.c = "TrampolineIfTestFormCont" ->
         IF primaryValue(bounce) = EVLBoolean(TRUE)
         THEN Return(EvalReq(k.thenForm, k.lenv), st)
         ELSE IF primaryValue(bounce) = EVLBoolean(FALSE)
         THEN Return(EvalReq(k.elseForm, k.lenv), st)
         ELSE Throw("EvaluatorError", st)
    [] k.c = "TrampolineSetValueFormCont" ->
         IF k.scope = LEX_SCOPE
         THEN FrameSet(k.lenv, k.namespace, k.variable, primaryValue(bounce), st)
         ELSE kStackSet(k.namespace, k.variable, primaryValue(bounce), st)
    [] k.c = "TrampolineCatchErrorsTryFormCont" -> Return(VOID, st)
    [] k.c = "TrampolineOperatorCont" ->
         LET fn == primaryValue(bounce)
             macro == k.operator.t = "variable" /\ fn.t = "closure" /\ fn.macro
         IN funcall("trampolineEvalOperands", <<k.mv, macro, k.operands, <<>>, k.lenv,
              kStackPush(Cont("TrampolineOperandsCont",
                [apply |-> k.apply, macro |-> macro, fn |-> fn, lenv |-> k.lenv]), st)>>)
    [] k.c = "TrampolineOperandCont" ->
         funcall("trampolineEvalOperands", <<k.mv, k.macro, k.operands.cdr,
           IF k.mv THEN k.args \o allValues(bounce)
           ELSE Append(k.args, primaryValue(bounce)),
           k.lenv, st>>)
    [] k.c = "TrampolineOperandsCont" ->
         funcall("trampolineInvokeFun", <<k.apply, k.macro, k.fn, bounce.elements, k.lenv, st>>)
    [] k.c = "TrampolineMacroCont" -> Return(EvalReq(primaryValue(bounce), k.lenv), st)

\* an iteration of the loop of trampolineEval without the test of the abort byte
trampolineBounceWithoutAbortTest(bounce, st, abort) ==
  LET next(r) == IF r.ok THEN [state |-> "bounce", v |-> r.v, st |-> r.st]
                 ELSE LET handled == handleError(r.v, r.st)
                      IN [state |-> IF handled.ok THEN "bounce" ELSE "throw",
                          v |-> handled.v, st |-> handled.st]
      k == st.stack[topCont(st.stack)]
      popped == logPop("popCont", st.stack, topCont(st.stack),
                       [st EXCEPT !.stack = SubSeq(@, 1, topCont(st.stack) - 1)])
      diverges == [state |-> "throw", v |-> "Diverges",
                   st |-> logPop("popCont", st.stack, 0, [st EXCEPT !.stack = <<>>])]
  IN IF bounce.t = "EvalReq"
     THEN next(funcall("trampolineEvalForm", <<bounce.form, bounce.lenv, st>>))
     ELSE IF topCont(st.stack) = 0 THEN diverges
     ELSE IF k.c = "TrampolineEndCont"
     THEN [state |-> "return", v |-> bounce, st |-> popped]
     ELSE next(funcall("trampolineInvoke", <<k, bounce, popped>>))

\* trampolineBounce with a popCont that removes the continuation only and
\* leaves on the stack the error handlers that were above it
trampolineBounceKeepingHandlers(bounce, st, abort) ==
  LET next(r) == IF r.ok THEN [state |-> "bounce", v |-> r.v, st |-> r.st]
                 ELSE LET handled == handleError(r.v, r.st)
                      IN [state |-> IF handled.ok THEN "bounce" ELSE "throw",
                          v |-> handled.v, st |-> handled.st]
      k == st.stack[topCont(st.stack)]
      isHandler(x) == x.t = "ErrorHandler"
      popped == logPop("popCont", st.stack, topCont(st.stack),
                       [st EXCEPT !.stack =
                          SubSeq(@, 1, topCont(st.stack) - 1)
                          \o SelectSeq(SubSeq(@, topCont(st.stack) + 1, Len(@)),
                                       isHandler)])
      diverges == [state |-> "throw", v |-> "Diverges",
                   st |-> logPop("popCont", st.stack, 0, [st EXCEPT !.stack = <<>>])]
  IN IF abort THEN [state |-> "throw", v |-> "Aborted", st |-> st]
     ELSE IF bounce.t = "EvalReq"
     THEN next(funcall("trampolineEvalForm", <<bounce.form, bounce.lenv, st>>))
     ELSE IF topCont(st.stack) = 0 THEN diverges
     ELSE IF k.c = "TrampolineEndCont"
     THEN [state |-> "return", v |-> bounce, st |-> popped]
     ELSE next(funcall("trampolineInvoke", <<k, bounce, popped>>))

\* one iteration of the loop of trampolineEval; abort is the test of the abort byte
trampolineBounce(bounce, st, abort) ==
  LET next(r) == IF r.ok THEN [state |-> "bounce", v |-> r.v, st |-> r.st]
                 ELSE LET handled == handleError(r.v, r.st)
                      IN [state |-> IF handled.ok THEN "bounce" ELSE "throw",
                          v |-> handled.v, st |-> handled.st]
      k == st.stack[topCont(st.stack)]
      popped == logPop("popCont", st.stack, topCont(st.stack),
                       [st EXCEPT !.stack = SubSeq(@, 1, topCont(st.stack) - 1)])
      diverges == [state |-> "throw", v |-> "Diverges",
                   st |-> logPop("popCont", st.stack, 0, [st EXCEPT !.stack = <<>>])]
  IN IF abort THEN [state |-> "throw", v |-> "Aborted", st |-> st]
     ELSE IF bounce.t = "EvalReq"
     THEN next(funcall("trampolineEvalForm", <<bounce.form, bounce.lenv, st>>))
     ELSE IF topCont(st.stack) = 0 THEN diverges
     ELSE IF k.c = "TrampolineEndCont"
     THEN [state |-> "return", v |-> bounce, st |-> popped]
     ELSE next(funcall("trampolineInvoke", <<k, bounce, popped>>))

\* the loop of trampolineEval, for at most n iterations
trampolineLoop(bounce, st, abort, n) ==
  IF n = 0 THEN Throw("Diverges", st)
  ELSE LET b == funcall("trampolineBounce", <<bounce, st, abort>>)
       IN IF b.state = "bounce" THEN funcall("trampolineLoop", <<b.v, b.st, abort, n - 1>>)
          ELSE IF b.state = "return" THEN Return(b.v, [b.st EXCEPT !.stack = <<>>])
          ELSE Throw(b.v, [b.st EXCEPT !.stack = <<>>])

trampolineEval(form, st, abort) ==
  funcall("trampolineLoop", <<EvalReq(form, nullDefiniteEnv),
                 [st EXCEPT !.stack = <<trampolineEndCont>>], abort, MaxBounces>>)

(***************************************************************************)
(* Trampoline++ evaluator.  A preprocessed form is a record tagged by      *)
(* t = "form" and by its class c.                                          *)
(***************************************************************************)
TrampolineppForm(class, fields) == [t |-> "form", c |-> class] @@ fields
trampolineppEndCont == [t |-> "Cont", c |-> "TrampolineppEndCont"]

trampolineppEvalForms(forms, lenv, st) ==
  IF forms = NIL THEN Return(VOID, st)
  ELSE IF forms.cdr = NIL THEN Return(EvalReq(forms.car, lenv), st)
  ELSE Return(EvalReq(forms.car, lenv),
              kStackPush(Cont("TrampolineppButLastFormCont",
                [forms |-> forms, lenv |-> lenv]), st))

RECURSIVE frameAt(_, _, _)
\* the loop of TrampolineppLRef.eval: the frame i links after lenv; the next
\* of nullDefiniteEnv is undefined (-1), and undefined has no next
frameAt(lenv, i, st) ==
  IF i = 0 THEN lenv
  ELSE IF lenv \in DOMAIN st.frames THEN frameAt(st.frames[lenv].next, i - 1, st)
  ELSE -1

RECURSIVE lookupBinding(_, _, _, _)
\* the search of Frame.ref and Frame.set, from the innermost frame outward:
\* the frame and the index of the binding, <<nullDefiniteEnv, 0>> when the
\* search ends at the global environment
lookupBinding(env, namespace, variable, st) ==
  IF env \notin DOMAIN st.frames THEN <<nullDefiniteEnv, 0>>
  ELSE LET j == frameIndex(st.frames[env], namespace, variable)
       IN IF j > 0 THEN <<env, j>>
          ELSE lookupBinding(st.frames[env].next, namespace, variable, st)

\* the store with one more element of accesses, the history of the
\* preprocessed references and assignments that were executed: the class of
\* the form, the variable and the namespace that it was made from, the frame
\* and the index that it used (found) and those of the binding that the
\* search from lenv resolves (bound)
logAccess(class, namespace, variable, found, lenv, st) ==
  [st EXCEPT !.accesses = Append(@,
     [c |-> class, namespace |-> namespace, variable |-> variable.name,
      found |-> found, bound |-> lookupBinding(lenv, namespace, variable, st)])]

\* the eval methods of the classes of preprocessed forms
trampolineppFormEval(form, lenv, st) ==
  CASE form.c = "TrampolineppQuote" -> Return(form.literal, st)
    [] form.c = "TrampolineppProgn" -> trampolineppEvalForms(form.forms, lenv, st)
    [] form.c = "TrampolineppIf" ->
         Return(EvalReq(form.testForm, lenv),
                kStackPush(Cont("TrampolineppIfTestFormCont",
                  [thenForm |-> form.thenForm, elseForm |-> form.elseForm,
                   lenv |-> lenv]), st))
    [] form.c = "TrampolineppLambda" ->
         Return(EVLClosure(form.scope, form.namespace, form.macro, form.parameters,
                           form.rest, form.forms, lenv), st)
    [] form.c = "TrampolineppLRef" ->
         LET frame == frameAt(lenv, form.i, st)
             logged == logAccess(form.c, form.namespace, form.variable,
                                 <<frame, form.j + 1>>, lenv, st)
         IN IF frame \in DOMAIN st.frames
            THEN Return(st.frames[frame].values[form.j + 1], logged)
            ELSE Throw("TypeError", logged)
    [] form.c = "TrampolineppGRef" ->
         GlobalEnvRef(form.namespace, form.variable,
                      logAccess(form.c, form.namespace, form.variable,
                                <<nullDefiniteEnv, 0>>, lenv, st))
    [] form.c = "TrampolineppDRef" -> kStackRef(form.namespace, form.variable, st)
    [] form.c = "TrampolineppLSet" ->
         Return(EvalReq(form.valueForm, lenv),
                kStackPush(Cont("TrampolineppLSetValueFormCont",
                  [i |-> form.i, j |-> form.j, lenv |-> lenv,
                   namespace |-> form.namespace, variable |-> form.variable]), st))
    [] form.c = "TrampolineppGSet" ->
         Return(EvalReq(form.valueForm, lenv),
                kStackPush(Cont("TrampolineppGSetValueFormCont",
                  [namespace |-> form.namespace, variable |-> form.variable,
                   lenv |-> lenv]), st))
    [] form.c = "TrampolineppDSet" ->
         Return(EvalReq(form.valueForm, lenv),
                kStackPush(Cont("TrampolineppDSetValueFormCont",
                  [namespace |-> form.namespace, variable |-> form.variable,
                   lenv |-> lenv]), st))
    [] form.c = "TrampolineppForEach" -> Throw("EvaluatorError", st)
    [] form.c = "TrampolineppCatchErrors" ->
         Return(EvalReq(form.tryForm, lenv),
                kStackPush(Cont("TrampolineppCatchErrorsTryFormCont", [lenv |-> lenv]),
                           kStackPush(ErrorHandler, st)))
    [] form.c = "TrampolineppCall" ->
         Return(EvalReq(form.operator, lenv),
                kStackPush(Cont("TrampolineppOperatorCont",
                  [mv |-> form.mv, apply |-> form.apply, operands |-> form.operands,
                   lenv |-> lenv]), st))

trampolineppEvalOperands(mv, operands, args, lenv, st) ==
  IF operands = NIL THEN Return(Array(args), st)
  ELSE Return(EvalReq(operands.car, lenv),
              kStackPush(Cont("TrampolineppOperandCont",
                [mv |-> mv, operands |-> operands, args |-> args, lenv |-> lenv]), st))

trampolineppInvokeFun(apply, fn, args, lenv, st) ==
  IF fn.t = "primitive"
  THEN LET values == funcall("pairPrimFunParameters", <<apply, args, fn.arityMin, fn.arityMax>>)
       IN IF ~values.ok THEN Throw(values.v, st)
          ELSE funcall("jsFunction", <<fn.jsFunction, values.v, st>>)
  ELSE IF fn.t = "closure"
  THEN LET values == funcall("pairClosureParameters", <<apply, args, fn.parameters, fn.rest>>) IN
       IF ~values.ok THEN Throw(values.v, st)
       ELSE IF fn.scope = LEX_SCOPE
       THEN LET elenv == newFrame(fn.namespace, fn.parameters, values.v, fn.lenv, st)
            IN trampolineppEvalForms(fn.forms, elenv.env, elenv.st)
       ELSE trampolineppEvalForms(fn.forms, fn.lenv,
              kStackPush(Frame(fn.namespace, fn.parameters, values.v, -1), st))
  ELSE Throw("EvaluatorError", st)

\* the invoke methods of the continuation classes
trampolineppInvoke(k, bounce, st) ==
  CASE k.c = "TrampolineppButLastFormCont" ->
         trampolineppEvalForms(k.forms.cdr, k.lenv, st)
    [] k.c = "TrampolineppIfTestFormCont" ->
         IF primaryValue(bounce) = EVLBoolean(TRUE)
         THEN Return(EvalReq(k.thenForm, k.lenv), st)
         ELSE IF primaryValue(bounce) = EVLBoolean(FALSE)
         THEN Return(EvalReq(k.elseForm, k.lenv), st)
         ELSE Throw("EvaluatorError", st)
    [] k.c = "TrampolineppLSetValueFormCont" ->
         LET frame == frameAt(k.lenv, k.i, st)
             logged == logAccess("TrampolineppLSet", k.namespace, k.variable,
                                 <<frame, k.j + 1>>, k.lenv, st)
         IN IF frame \in DOMAIN st.frames
            THEN Return(primaryValue(bounce),
                   [logged EXCEPT !.frames[frame].values[k.j + 1] = primaryValue(bounce),
                                  !.effects = Append(@,
                                    st.frames[frame].variables[k.j + 1].name)])
            ELSE Throw("TypeError", logged)
    [] k.c = "TrampolineppGSetValueFormCont" ->
         GlobalEnvSet(k.namespace, k.variable, primaryValue(bounce),
                      logAccess("TrampolineppGSet", k.namespace, k.variable,
                                <<nullDefiniteEnv, 0>>, k.lenv, st))
    [] k.c = "TrampolineppDSetValueFormCont" ->
         kStackSet(k.namespace, k.variable, primaryValue(bounce), st)
    [] k.c = "TrampolineppCatchErrorsTryFormCont" -> Return(VOID, st)
    [] k.c = "TrampolineppOperatorCont" ->
         funcall("trampolineppEvalOperands", <<k.mv, k.operands, <<>>, k.lenv,
           kStackPush(Cont("TrampolineppOperandsCont",
             [apply |-> k.apply, fn |-> primaryValue(bounce), lenv |-> k.lenv]), st)>>)
    [] k.c = "TrampolineppOperandCont" ->
         funcall("trampolineppEvalOperands", <<k.mv, k.operands.cdr,
           IF k.mv THEN k.args \o allValues(bounce)
           ELSE Append(k.args, primaryValue(bounce)),
           k.lenv, st>>)
    [] k.c = "TrampolineppOperandsCont" ->
         funcall("trampolineppInvokeFun", <<k.apply, k.fn, bounce.elements, k.lenv, st>>)

\* an iteration of the loop of trampolineppEval that throws Aborted inside the
\* try statement, where kStack.handleError catches it
trampolineppBounceHandlingAborted(bounce, st, abort) ==
  LET next(r) == IF r.ok THEN [state |-> "bounce", v |-> r.v, st |-> r.st]
                 ELSE LET handled == handleError(r.v, r.st)
                      IN [state |-> IF handled.ok THEN "bounce" ELSE "throw",
                          v |-> handled.v, st |-> handled.st]
      k == st.stack[topCont(st.stack)]
      popped == logPop("popCont", st.stack, topCont(st.stack),
                       [st EXCEPT !.stack = SubSeq(@, 1, topCont(st.stack) - 1)])
      diverges == [state |-> "throw", v |-> "Diverges",
                   st |-> logPop("popCont", st.stack, 0, [st EXCEPT !.stack = <<>>])]
  IN IF abort THEN next(Throw("Aborted", st))
     ELSE IF bounce.t = "EvalReq"
     THEN next(funcall("trampolineppFormEval", <<bounce.form, bounce.lenv, st>>))
     ELSE IF topCont(st.stack) = 0 THEN diverges
     ELSE IF k.c = "TrampolineppEndCont"
     THEN [state |-> "return", v |-> bounce, st |-> popped]
     ELSE next(funcall("trampolineppInvoke", <<k, bounce, popped>>))

\* one iteration of the loop of trampolineppEval; abort is the test of the abort byte
trampolineppBounce(bounce, st, abort) ==
  LET next(r) == IF r.ok THEN [state |-> "bounce", v |-> r.v, st |-> r.st]
                 ELSE LET handled == handleError(r.v, r.st)
                      IN [state |-> IF handled.ok THEN "bounce" ELSE "throw",
                          v |-> handled.v, st |-> handled.st]
      k == st.stack[topCont(st.stack)]
      popped == logPop("popCont", st.stack, topCont(st.stack),
                       [st EXCEPT !.stack = SubSeq(@, 1, topCont(st.stack) - 1)])
      diverges == [state |-> "throw", v |-> "Diverges",
                   st |-> logPop("popCont", st.stack, 0, [st EXCEPT !.stack = <<>>])]
  IN IF abort THEN [state |-> "throw", v |-> "Aborted", st |-> st]
     ELSE IF bounce.t = "EvalReq"
     THEN next(funcall("trampolineppFormEval", <<bounce.form, bounce.lenv, st>>))
     ELSE IF topCont(st.stack) = 0 THEN diverges
     ELSE IF k.c = "TrampolineppEndCont"
     THEN [state |-> "return", v |-> bounce, st |-> popped]
     ELSE next(funcall("trampolineppInvoke", <<k, bounce, popped>>))

\* the loop of trampolineppEval, for at most n iterations
trampolineppLoop(bounce, st, abort, n) ==
  IF n = 0 THEN Throw("Diverges", st)
  ELSE LET b == funcall("trampolineppBounce", <<bounce, st, abort>>)
       IN IF b.state = "bounce" THEN funcall("trampolineppLoop", <<b.v, b.st, abort, n - 1>>)
          ELSE IF b.state = "return" THEN Return(b.v, [b.st EXCEPT !.stack = <<>>])
          ELSE Throw(b.v, [b.st EXCEPT !.stack = <<>>])

\* optimizeLexicalVariables is true: the classes TrampolineppRef and
\* TrampolineppSet are never instantiated.  A TrampolineppLRef or
\* TrampolineppLSet has the fields i and j; the model notes with them the
\* namespace and the variable that they stand for, which logAccess records
trampolineppPreprocessRef2(scope, namespace, variable, lenv, st) ==
  IF scope = LEX_SCOPE
  THEN LET ref == FramePreprocessorRef(lenv, namespace, variable, 0, st)
       IN IF ref[1] # -1 /\ ref[2] # -1
          THEN TrampolineppForm("TrampolineppLRef",
                 [i |-> ref[1], j |-> ref[2],
                  namespace |-> namespace, variable |-> variable])
          ELSE TrampolineppForm("TrampolineppGRef",
                 [namespace |-> namespace, variable |-> variable])
  ELSE TrampolineppForm("TrampolineppDRef",
         [namespace |-> namespace, variable |-> variable])

isMacroLet(operator, operands) ==
  /\ operator.t = "cons"
  /\ operator.car = EVLVariable("_flambda")
  /\ \A i \in 1..Len(listToArray(operands)) :
       /\ listToArray(operands)[i].t = "cons"
       /\ listToArray(operands)[i].car = EVLVariable("mlambda")

\* preprocessedOperand.eval(nullDefiniteEnv, null): an eval method that uses
\* the control stack, or the frames of the environment, fails on null
evalWithoutStack(form, st) ==
  IF form.c \in {"TrampolineppQuote", "TrampolineppLambda", "TrampolineppGRef"}
  THEN funcall("trampolineppFormEval", <<form, nullDefiniteEnv, st>>)
  ELSE Throw("TypeError", st)

RECURSIVE evalAllWithoutStack(_, _, _)
\* the map over the preprocessed operands of a macro-let
evalAllWithoutStack(forms, values, st) ==
  IF forms = NIL THEN Return(values, st)
  ELSE LET value == evalWithoutStack(forms.car, st)
       IN IF ~value.ok THEN value
          ELSE evalAllWithoutStack(forms.cdr, Append(values, value.v), value.st)


trampolineppPreprocessLambda(scope, namespace, macro, form, lenv, st, abort, d) ==
  LET parts == analyzeLambda(form) IN
  IF ~parts.ok THEN Throw(parts.v, st)
  ELSE LET elenv == IF scope = LEX_SCOPE
                    THEN newFrame(namespace, parts.v[1],
                                  [j \in 1..Len(parts.v[1]) |-> NULL], lenv, st)
                    ELSE [env |-> lenv, st |-> st]
           preprocessedForms ==
             funcall("trampolineppPreprocessForms", <<parts.v[3], elenv.env, elenv.st, abort, d + 1>>)
       IN IF ~preprocessedForms.ok THEN preprocessedForms
          ELSE Return(TrampolineppForm("TrampolineppLambda",
                        [scope |-> scope, namespace |-> namespace, macro |-> macro,
                         parameters |-> parts.v[1], rest |-> parts.v[2],
                         forms |-> preprocessedForms.v]), preprocessedForms.st)

trampolineppPreprocessSet(scope, namespace, form, lenv, st, abort, d) ==
  LET parts == analyzeSet(form) IN
  IF ~parts.ok THEN Throw(parts.v, st)
  ELSE LET valueForm == funcall("trampolineppPreprocessForm", <<parts.v[2], lenv, st, abort, d + 1>>)
           ref == FramePreprocessorRef(lenv, namespace, parts.v[1], 0, valueForm.st)
       IN IF ~valueForm.ok THEN valueForm
          ELSE Return(
                 IF scope = DYN_SCOPE
                 THEN TrampolineppForm("TrampolineppDSet",
                        [namespace |-> namespace, variable |-> parts.v[1],
                         valueForm |-> valueForm.v])
                 ELSE IF ref[1] # -1 /\ ref[2] # -1
                 THEN TrampolineppForm("TrampolineppLSet",
                        [i |-> ref[1], j |-> ref[2], valueForm |-> valueForm.v,
                         namespace |-> namespace, variable |-> parts.v[1]])
                 ELSE TrampolineppForm("TrampolineppGSet",
                        [namespace |-> namespace, variable |-> parts.v[1],
                         valueForm |-> valueForm.v]),
                 valueForm.st)

trampolineppPreprocessForms(forms, lenv, st, abort, d) ==
  IF forms = NIL THEN Return(NIL, st)
  ELSE LET first == funcall("trampolineppPreprocessForm", <<forms.car, lenv, st, abort, d + 1>>) IN
       IF ~first.ok THEN first
       ELSE LET others == funcall("trampolineppPreprocessForms", <<forms.cdr, lenv, first.st, abort,
                                                      d + 1>>)
            IN IF ~others.ok THEN others
               ELSE Return(EVLCons(first.v, others.v), others.st)

trampolineppPreprocessCall(mv, apply, form, lenv, st, abort, d) ==
  LET parts == analyzeCall(mv, apply, form) IN
  IF ~parts.ok THEN Throw(parts.v, st)
  ELSE LET operator == parts.v[1]
           operands == parts.v[2]
           call(preprocessedOperator, preprocessedOperands) ==
             TrampolineppForm("TrampolineppCall",
               [mv |-> mv, apply |-> apply, operator |-> preprocessedOperator,
                operands |-> preprocessedOperands])
           preprocessedOperands ==
             funcall("trampolineppPreprocessForms", <<operands, lenv, st, abort, d + 1>>)
  IN IF operator.t = "variable"
     THEN LET fn == FramePreprocessorRef(lenv, FUN_NS, operator, 0, st)[3] IN
          IF fn.t = "closure" /\ fn.macro
          THEN LET values == funcall("pairClosureParameters", <<FALSE, listToArray(operands),
                                                   fn.parameters, fn.rest>>)
                   elenv == newFrame(fn.namespace, fn.parameters, values.v, fn.lenv, st)
                   expansion ==
                     funcall("trampolineppLoop", <<
                       EvalReq(TrampolineppForm("TrampolineppProgn", [forms |-> fn.forms]),
                               elenv.env),
                       [elenv.st EXCEPT !.stack = <<trampolineppEndCont>>],
                       abort, MaxBounces>>)
               IN IF ~values.ok THEN Throw(values.v, st)
                  ELSE IF ~expansion.ok THEN expansion
                  ELSE funcall("trampolineppPreprocessForm", <<primaryValue(expansion.v), lenv,
                                                  expansion.st, abort, d + 1>>)
          ELSE IF ~preprocessedOperands.ok THEN preprocessedOperands
          ELSE Return(call(trampolineppPreprocessRef2(LEX_SCOPE, FUN_NS, operator,
                                                      lenv, st),
                           preprocessedOperands.v), preprocessedOperands.st)
     ELSE IF isMacroLet(operator, operands)
     THEN IF ~preprocessedOperands.ok THEN preprocessedOperands
          ELSE LET lambda == analyzeLambda(operator)
                   values == evalAllWithoutStack(preprocessedOperands.v, <<>>,
                                                 preprocessedOperands.st)
                   elenv == newFrame(FUN_NS, lambda.v[1], values.v, lenv, values.st)
                   preprocessedForms ==
                     funcall("trampolineppPreprocessForms", <<lambda.v[3], elenv.env, elenv.st,
                                                 abort, d + 1>>)
               IN IF ~lambda.ok THEN Throw(lambda.v, preprocessedOperands.st)
                  ELSE IF ~values.ok THEN values
                  ELSE IF ~preprocessedForms.ok THEN preprocessedForms
                  ELSE Return(call(TrampolineppForm("TrampolineppLambda",
                                     [scope |-> LEX_SCOPE, namespace |-> FUN_NS,
                                      macro |-> FALSE, parameters |-> lambda.v[1],
                                      rest |-> lambda.v[2],
                                      forms |-> preprocessedForms.v]),
                                   preprocessedOperands.v), preprocessedForms.st)
     ELSE LET preprocessedOperator ==
                funcall("trampolineppPreprocessForm", <<operator, lenv, st, abort, d + 1>>)
              others == funcall("trampolineppPreprocessForms", <<operands, lenv,
                                                    preprocessedOperator.st, abort, d + 1>>)
          IN IF ~preprocessedOperator.ok THEN preprocessedOperator
             ELSE IF ~others.ok THEN others
             ELSE Return(call(preprocessedOperator.v, others.v), others.st)

trampolineppPreprocessForm(form, lenv, st, abort, d) ==
  IF d > MaxHostStack THEN Throw("RangeError", st)
  ELSE IF form = NIL THEN Throw("EvaluatorError", st)
  ELSE IF form.t = "variable"
  THEN Return(trampolineppPreprocessRef2(LEX_SCOPE, VAL_NS, form, lenv, st), st)
  ELSE IF form.t # "cons"
  THEN Return(TrampolineppForm("TrampolineppQuote", [literal |-> form]), st)
  ELSE LET case == formCase(form)
           sub(n, parts, st1) == funcall("trampolineppPreprocessForm", <<parts.v[n], lenv, st1,
                                                            abort, d + 1>>)
  IN CASE case.kind = "quote" ->
           LET parts == analyzeQuote(form)
           IN IF ~parts.ok THEN Throw(parts.v, st)
              ELSE Return(TrampolineppForm("TrampolineppQuote",
                            [literal |-> parts.v[1]]), st)
      [] case.kind = "progn" ->
           LET parts == analyzeProgn(form)
               forms == funcall("trampolineppPreprocessForms", <<parts.v[1], lenv, st, abort, d + 1>>)
           IN IF ~parts.ok THEN Throw(parts.v, st)
              ELSE IF ~forms.ok THEN forms
              ELSE Return(TrampolineppForm("TrampolineppProgn", [forms |-> forms.v]),
                          forms.st)
      [] case.kind = "if" ->
           LET parts == analyzeIf(form)
               testForm == sub(1, parts, st)
               thenForm == sub(2, parts, testForm.st)
               elseForm == sub(3, parts, thenForm.st)
           IN IF ~parts.ok THEN Throw(parts.v, st)
              ELSE IF ~testForm.ok THEN testForm
              ELSE IF ~thenForm.ok THEN thenForm
              ELSE IF ~elseForm.ok THEN elseForm
              ELSE Return(TrampolineppForm("TrampolineppIf",
                            [testForm |-> testForm.v, thenForm |-> thenForm.v,
                             elseForm |-> elseForm.v]), elseForm.st)
      [] case.kind = "lambda" ->
           trampolineppPreprocessLambda(case.scope, case.namespace, case.macro, form,
                                        lenv, st, abort, d)
      [] case.kind = "ref" ->
           LET parts == analyzeRef(form)
           IN IF ~parts.ok THEN Throw(parts.v, st)
              ELSE Return(trampolineppPreprocessRef2(case.scope, case.namespace,
                                                     parts.v[1], lenv, st), st)
      [] case.kind = "set" ->
           trampolineppPreprocessSet(case.scope, case.namespace, form, lenv, st, abort, d)
      [] case.kind = "forEach" ->
           LET parts == analyzeForEach(form)
               functionForm == sub(1, parts, st)
               listForm == sub(2, parts, functionForm.st)
           IN IF ~parts.ok THEN Throw(parts.v, st)
              ELSE IF ~functionForm.ok THEN functionForm
              ELSE IF ~listForm.ok THEN listForm
              ELSE Return(TrampolineppForm("TrampolineppForEach",
                            [functionForm |-> functionForm.v,
                             listForm |-> listForm.v]), listForm.st)
      [] case.kind = "catchErrors" ->
           LET parts == analyzeCatchErrors(form)
               tryForm == sub(1, parts, st)
           IN IF ~parts.ok THEN Throw(parts.v, st)
              ELSE IF ~tryForm.ok THEN tryForm
              ELSE Return(TrampolineppForm("TrampolineppCatchErrors",
                            [tryForm |-> tryForm.v]), tryForm.st)
      [] case.kind = "call" ->
           funcall("trampolineppPreprocessCall", <<case.mv, case.apply, form, lenv, st, abort, d>>)

\* trampolineppEval(form): the form is preprocessed, then the loop runs
trampolineppEval(form, st, abort) ==
  LET preprocessed == funcall("trampolineppPreprocessForm", <<form, nullDefiniteEnv, st, abort, 1>>)
  IN IF ~preprocessed.ok THEN preprocessed
     ELSE funcall("trampolineppLoop", <<EvalReq(preprocessed.v, nullDefiniteEnv),
                           [preprocessed.st EXCEPT !.stack = <<trampolineppEndCont>>],
                           abort, MaxBounces>>)

(***************************************************************************)
(* Printed representation.  The strings and the variables of the programs  *)
(* evaluated here are made of letters, digits, and the characters of       *)
(* operator names, which escapeCharacters leaves as they are.               *)
(***************************************************************************)
RECURSIVE toString(_)
toString(object) ==
  LET RECURSIVE elements(_)
      elements(list) ==
        toString(list.car)
          \o (IF list.cdr.t = "cons" THEN " " \o elements(list.cdr)
              ELSE IF list.cdr.t = "nil" THEN ""
              ELSE " . " \o toString(list.cdr))
  IN CASE object.t = "void" -> "#v"
       [] object.t = "boolean" -> IF object.jsValue THEN "#t" ELSE "#f"
       [] object.t = "number" -> ToString(object.jsValue)
       [] object.t = "string" -> "\"" \o object.jsValue \o "\""
       [] object.t = "variable" -> object.name
       [] object.t = "nil" -> "()"
       [] object.t = "cons" -> "(" \o elements(object) \o ")"
       [] object.t = "primitive" -> "#<primitive-function>"
       [] object.t = "closure" -> "#<closure>"
       [] object.t = "keyword" -> ":" \o object.name
       [] object.t = "character" -> "#\"" \o object.jsValue \o "\""
       [] object.t = "vector" ->
            "#(" \o (IF object.elements = <<>> THEN ""
                     ELSE elements(arrayToList(object.elements, NIL))) \o ")"

(***************************************************************************)
(* Tokenizer.  A text is a sequence of elements; an element is one         *)
(* character, or a run of characters that the tokenizer treats alike: a    *)
(* maximal run of decimal digits (Numerals) or a maximal run of letters    *)
(* a-z (Names); right after a backslash or a # a letter is an element of   *)
(* its own.  The position of the tokenizer is the text that remains.  The  *)
(* characters of the texts are valid ones (peekCharacter does not throw).  *)
(* The elements "BACKQUOTE" and "VT" are the backquote and the vertical    *)
(* tab, which a string of the model cannot hold.                           *)
(***************************************************************************)
QUOTE == 0
QUASIQUOTE == 1
UNQUOTE == 2
UNQUOTE_SPLICING == 3
STRING_TOKEN == 4
OPENING_PARENTHESIS == 5
CLOSING_PARENTHESIS == 6
HASH_OPENING_PARENTHESIS == 7
HASH_PLUS == 8
HASH_MINUS == 9
VOID_TOKEN == 10
BOOLEAN_TOKEN == 11
CHARACTER == 12
XML_START_TAG == 13
XML_END_TAG == 14
XML_EMPTY_ELEMENT_TAG == 15
XML_COMMENT == 16
DOT == 17
NUMBER == 18
KEYWORD == 19
VARIABLE_TOKEN == 20
BOI == 21
EOI == 22

\* the runs of decimal digits of the texts, with the integer of each
Numerals == [digits \in {"0", "1", "2", "3", "4"} |->
               CASE digits = "0" -> 0 [] digits = "1" -> 1 [] digits = "2" -> 2
                 [] digits = "3" -> 3 [] digits = "4" -> 4]
\* the runs of letters a-z of the texts
Names ==
  {"a", "and", "b", "boot", "c", "car", "catch", "chapter", "cons", "cps",
   "dlambda", "dref", "dset", "each", "errors", "f", "flambda", "for",
   "fref", "fset", "g", "m", "mlambda", "not", "oocps", "or", "p",
   "plainrec", "progn", "quote", "s", "section", "trampolinepp", "vlambda",
   "vset", "x", "y", "z"}

isWhitespaceCharacter(char) == char \in {" ", "\n", "\t"}
isSyntaxCharacter(char) == char \in {"'", "BACKQUOTE", ",", "\"", "(", ")", "#"}
isXMLNameCharacter(char) == char \in Names
isDecimalDigit(char) == char \in DOMAIN Numerals

\* new Tokenizer(text), with what the reader uses of the globals of the core:
\* callback tells whether tokenizer.callback is set; st is the store, where
\* internVariable interns; the callback evaluates with selectedEvaluator and
\* the abort byte, and assigns lastResult
\* text is what follows this.position; whitespace and lexeme are the
\* characters of the two strings
Tokenizer(text, callback, selected, abort, st) ==
  [text |-> text, convertEVLToXML |-> FALSE, xmlStack |-> <<>>, savedCodeUnits |-> <<>>,
   whitespace |-> <<>>, lexeme |-> <<>>, callback |-> callback,
   selectedEvaluator |-> selected, abort |-> abort, lastResult |-> VOID, st |-> st]

\* the tokenizer after nextToken: its category, its value, and the rest
Token(category, value, tokenizer) ==
  [ok |-> TRUE, category |-> category, value |-> value, tokenizer |-> tokenizer]

consumeCharacter(tokenizer) ==
  [tokenizer EXCEPT !.lexeme = Append(@, Head(tokenizer.text)), !.text = Tail(@)]

RECURSIVE skipWhitespace(_, _)
skipWhitespace(tokenizer, pureXML) ==
  IF tokenizer.text = <<>> THEN tokenizer
  ELSE LET char == Head(tokenizer.text)
       IN IF (IF pureXML THEN char = "<" ELSE ~isWhitespaceCharacter(char))
          THEN tokenizer
          ELSE skipWhitespace([tokenizer EXCEPT !.whitespace = Append(@, char),
                                                !.text = Tail(@)], pureXML)

RECURSIVE concat(_)
\* the JavaScript string made of the elements of chars
concat(chars) == IF chars = <<>> THEN "" ELSE Head(chars) \o concat(Tail(chars))

\* the hexadecimal numerals of the escape sequences of the texts, with the
\* character of each
CodePoints == ("41" :> "A") @@ ("61" :> "a") @@ ("20" :> " ") @@ ("28" :> "(")

\* reads {xyz}, returns xyz
readEscapeSequence(tokenizer) ==
  LET RECURSIVE loop(_, _)
      loop(chars, tk) ==
        IF tk.text = <<>> THEN Err("TruncatedToken")
        ELSE LET char2 == Head(tk.text)
             IN IF char2 = "}"
                THEN [ok |-> TRUE, chars |-> chars, tokenizer |-> consumeCharacter(tk)]
                ELSE loop(chars \o char2, consumeCharacter(tk))
  IN IF tokenizer.text = <<>> THEN Err("TruncatedToken")
     ELSE IF Head(tokenizer.text) # "{" THEN Err("MalformedEscapeSequence")
     ELSE loop("", consumeCharacter(tokenizer))

\* the characters of the string, one element each
readString(tokenizer) ==
  LET RECURSIVE loop(_, _)
      loop(chars, tk) ==
        IF tk.text = <<>> THEN Err("TruncatedToken")
        ELSE LET char == Head(tk.text)
                 tk1 == consumeCharacter(tk)
             IN IF char = "\"" THEN [ok |-> TRUE, chars |-> chars, tokenizer |-> tk1]
                ELSE IF char = "\\"
                THEN IF tk1.text = <<>> THEN Err("TruncatedToken")
                     ELSE LET char2 == Head(tk1.text)
                              tk2 == consumeCharacter(tk1)
                              codePoint == funcall("readEscapeSequence", <<tk2>>)
                          IN CASE char2 \in {"\\", "\""} -> loop(Append(chars, char2), tk2)
                               [] char2 = "t" -> loop(Append(chars, "\t"), tk2)
                               [] char2 = "n" -> loop(Append(chars, "\n"), tk2)
                               [] char2 = "v" -> loop(Append(chars, "VT"), tk2)
                               [] char2 = "f" -> loop(Append(chars, "\f"), tk2)
                               [] char2 = "r" -> loop(Append(chars, "\r"), tk2)
                               [] char2 = "U" ->
                                    IF ~codePoint.ok THEN codePoint
                                    ELSE IF codePoint.chars \notin DOMAIN CodePoints
                                    THEN Err("MalformedEscapeSequence")
                                    ELSE loop(Append(chars, CodePoints[codePoint.chars]),
                                              codePoint.tokenizer)
                               [] OTHER -> Err("UndefinedEscapeSequence")
                ELSE loop(Append(chars, char), tk1)
  IN loop(<<>>, tokenizer)

EVLCharacter(jsValue) == [t |-> "character", jsValue |-> jsValue]
EVLKeyword(name) == [t |-> "keyword", name |-> name]
EVLVector(elements) == [t |-> "vector", elements |-> elements]

\* the token of a hash construct; its category is -1 for null (#"")
readHashConstruct(tokenizer) ==
  LET RECURSIVE loop(_, _)
      loop(arg, tk) ==
        IF tk.text = <<>> THEN Err("TruncatedToken")
        ELSE LET char == Head(tk.text)
                 tk1 == consumeCharacter(tk)
                 string == funcall("readString", <<tk1>>)
                 index == IF arg \in DOMAIN Numerals THEN Numerals[arg] ELSE -1
             IN IF isDecimalDigit(char) THEN loop(arg \o char, tk1)
                ELSE CASE char = "(" -> Token(HASH_OPENING_PARENTHESIS, NULL, tk1)
                       [] char = "+" -> Token(HASH_PLUS, NULL, tk1)
                       [] char = "-" -> Token(HASH_MINUS, NULL, tk1)
                       [] char = "v" -> Token(VOID_TOKEN, VOID, tk1)
                       [] char = "t" -> Token(BOOLEAN_TOKEN, EVLBoolean(TRUE), tk1)
                       [] char = "f" -> Token(BOOLEAN_TOKEN, EVLBoolean(FALSE), tk1)
                       [] char = "\"" ->
                            IF ~string.ok THEN string
                            ELSE IF tokenizer.convertEVLToXML
                            THEN Token(CHARACTER, NULL, string.tokenizer)
                            ELSE IF arg # ""
                            THEN IF index >= 0 /\ index < Len(string.chars)
                                 THEN Token(CHARACTER, EVLCharacter(string.chars[index + 1]),
                                            string.tokenizer)
                                 ELSE Err("IndexOutOfBounds")
                            ELSE IF Len(string.chars) # 0
                            THEN Token(CHARACTER, EVLCharacter(string.chars[1]),
                                       [string.tokenizer EXCEPT
                                          !.savedCodeUnits = Tail(string.chars)])
                            ELSE Token(-1, NULL, string.tokenizer)
                       [] OTHER -> Err("UndefinedHashConstruct")
  IN loop("", tokenizer)

\* found tells whether the text begins with XML markup; token is the token
\* when the markup is consumed
readXMLMarkup(tokenizer, consume) ==
  LET markup(isXMLEndTag, isXMLEmptyElementTag, isXMLComment, name, text) ==
        LET tk == [tokenizer EXCEPT
                     !.lexeme = SubSeq(tokenizer.text, 1, Len(tokenizer.text) - Len(text)),
                     !.text = text]
            n == Len(tokenizer.xmlStack)
        IN IF isXMLEndTag /\ isXMLEmptyElementTag THEN [found |-> FALSE]
           ELSE IF ~consume THEN [found |-> TRUE]
           ELSE IF isXMLComment THEN [found |-> TRUE, token |-> Token(XML_COMMENT, NULL, tk)]
           ELSE IF isXMLEndTag
           THEN IF n = 0 THEN [found |-> TRUE, token |-> Err("UnexpectedXMLEndTag")]
                ELSE IF tokenizer.xmlStack[n] # name
                THEN [found |-> TRUE, token |-> Err("UnmatchedXMLTags")]
                ELSE [found |-> TRUE,
                      token |-> Token(XML_END_TAG, name,
                                      [tk EXCEPT !.xmlStack = SubSeq(@, 1, n - 1)])]
           ELSE IF isXMLEmptyElementTag
           THEN [found |-> TRUE, token |-> Token(XML_EMPTY_ELEMENT_TAG, name, tk)]
           ELSE [found |-> TRUE,
                 token |-> Token(XML_START_TAG, name,
                                 [tk EXCEPT !.xmlStack = Append(@, name)])]
      RECURSIVE loop(_, _, _, _, _, _)
      loop(state, isXMLEndTag, isXMLEmptyElementTag, isXMLComment, name, text) ==
        IF text = <<>> THEN [found |-> FALSE]
        ELSE LET char == Head(text)
                 rest == Tail(text)
             IN CASE state = 0 ->
                       IF char = "/" THEN loop(100, TRUE, FALSE, FALSE, name, rest)
                       ELSE IF isXMLNameCharacter(char)
                       THEN loop(101, FALSE, FALSE, FALSE, name \o char, rest)
                       ELSE IF char = "!" THEN loop(200, FALSE, FALSE, TRUE, name, rest)
                       ELSE [found |-> FALSE]
                  [] state = 100 ->
                       IF isXMLNameCharacter(char)
                       THEN loop(101, isXMLEndTag, FALSE, FALSE, name \o char, rest)
                       ELSE [found |-> FALSE]
                  [] state = 101 ->
                       IF isXMLNameCharacter(char)
                       THEN loop(101, isXMLEndTag, FALSE, FALSE, name \o char, rest)
                       ELSE IF char = "/" THEN loop(102, isXMLEndTag, TRUE, FALSE, name, rest)
                       ELSE IF char = ">"
                       THEN markup(isXMLEndTag, isXMLEmptyElementTag, FALSE, name, rest)
                       ELSE [found |-> FALSE]
                  [] state = 102 ->
                       IF char = ">"
                       THEN markup(isXMLEndTag, isXMLEmptyElementTag, FALSE, name, rest)
                       ELSE [found |-> FALSE]
                  [] state = 200 ->
                       IF char = "-" THEN loop(201, FALSE, FALSE, TRUE, name, rest)
                       ELSE [found |-> FALSE]
                  [] state = 201 ->
                       IF char = "-" THEN loop(202, FALSE, FALSE, TRUE, name, rest)
                       ELSE [found |-> FALSE]
                  [] state = 202 ->
                       loop(IF char = "-" THEN 203 ELSE 202, FALSE, FALSE, TRUE, name, rest)
                  [] state = 203 ->
                       loop(IF char = "-" THEN 204 ELSE 202, FALSE, FALSE, TRUE, name, rest)
                  [] state = 204 ->
                       IF char = ">" THEN markup(FALSE, FALSE, TRUE, name, rest)
                       ELSE [found |-> FALSE]
  IN loop(0, FALSE, FALSE, FALSE, "", Tail(tokenizer.text))

\* the characters of the proto-token, an element each
readProtoToken(tokenizer) ==
  LET RECURSIVE loop(_, _)
      loop(chars, tk) ==
        IF tk.text = <<>> THEN [ok |-> TRUE, chars |-> chars, tokenizer |-> tk]
        ELSE LET char == Head(tk.text)
                 tk1 == consumeCharacter(tk)
             IN IF isWhitespaceCharacter(char) \/ isSyntaxCharacter(char)
                THEN [ok |-> TRUE, chars |-> chars, tokenizer |-> tk]
                ELSE IF char = "<" /\ funcall("readXMLMarkup", <<tk, FALSE>>).found
                THEN [ok |-> TRUE, chars |-> chars, tokenizer |-> tk]
                ELSE IF char = "\\"
                THEN IF tk1.text = <<>> THEN Err("TruncatedToken")
                     ELSE LET char2 == Head(tk1.text)
                              tk2 == consumeCharacter(tk1)
                              codePoint == funcall("readEscapeSequence", <<tk2>>)
                          IN CASE char2 \in {"\\", "<"} -> loop(Append(chars, char2), tk2)
                               [] char2 = "U" ->
                                    IF ~codePoint.ok THEN codePoint
                                    ELSE IF codePoint.chars \notin DOMAIN CodePoints
                                    THEN Err("MalformedEscapeSequence")
                                    ELSE loop(Append(chars, CodePoints[codePoint.chars]),
                                              codePoint.tokenizer)
                               [] OTHER -> Err("UndefinedEscapeSequence")
                ELSE loop(Append(chars, char), tk1)
  IN loop(<<>>, tokenizer)

\* numberRegExp.test(protoToken) and new EVLNumber(Number.parseFloat(protoToken)):
\* the number is an integer when the fraction is zero, else it keeps the
\* digits of its fraction
parseNumber(chars) ==
  LET signed == chars # <<>> /\ Head(chars) \in {"+", "-"}
      digits == IF signed THEN Tail(chars) ELSE chars
      sign == IF signed /\ Head(chars) = "-" THEN -1 ELSE 1
      test == \/ Len(digits) = 1 /\ isDecimalDigit(digits[1])
              \/ /\ Len(digits) = 3
                 /\ isDecimalDigit(digits[1]) /\ digits[2] = "." /\ isDecimalDigit(digits[3])
  IN [test |-> test,
      value |-> IF ~test THEN NULL
                ELSE IF Len(digits) = 1 \/ Numerals[digits[3]] = 0
                THEN EVLNumber(sign * Numerals[digits[1]])
                ELSE [t |-> "number", jsValue |-> sign * Numerals[digits[1]],
                      fraction |-> digits[3]]]

readToken(tokenizer, pureXML) ==
  LET char == Head(tokenizer.text)
      tk1 == consumeCharacter(tokenizer)
      string == funcall("readString", <<tk1>>)
      markup == funcall("readXMLMarkup", <<tokenizer, TRUE>>)
      protoToken == funcall("readProtoToken", <<tokenizer>>)
      number == funcall("parseNumber", <<protoToken.chars>>)
      colons == {i \in 1..Len(protoToken.chars) : protoToken.chars[i] = ":"}
      name == concat(protoToken.chars)
  IN CASE char = "'" -> Token(QUOTE, NULL, tk1)
       [] char = "BACKQUOTE" -> Token(QUASIQUOTE, NULL, tk1)
       [] char = "," ->
            IF tk1.text # <<>> /\ Head(tk1.text) = "@"
            THEN Token(UNQUOTE_SPLICING, NULL, consumeCharacter(tk1))
            ELSE Token(UNQUOTE, NULL, tk1)
       [] char = "\"" ->
            IF string.ok THEN Token(STRING_TOKEN, EVLString(concat(string.chars)), string.tokenizer)
            ELSE string
       [] char = "(" -> Token(OPENING_PARENTHESIS, NULL, tk1)
       [] char = ")" -> Token(CLOSING_PARENTHESIS, NULL, tk1)
       [] char = "#" -> funcall("readHashConstruct", <<tk1>>)
       [] char = "<" /\ markup.found -> markup.token
       [] char = "<" /\ ~markup.found /\ pureXML -> Err("MalformedXMLMarkup")
       [] OTHER ->
            IF ~protoToken.ok THEN protoToken
            ELSE IF protoToken.chars = <<".">> THEN Token(DOT, NULL, protoToken.tokenizer)
            ELSE IF number.test
            THEN Token(NUMBER, number.value, protoToken.tokenizer)
            ELSE IF colons = {1} /\ Len(protoToken.chars) > 1
            THEN Token(KEYWORD, EVLKeyword(concat(Tail(protoToken.chars))),
                       protoToken.tokenizer)
            ELSE IF colons = {} /\ protoToken.chars # <<>>
            THEN Token(VARIABLE_TOKEN, EVLVariable(name),
                       [protoToken.tokenizer EXCEPT !.st = internVariable(name, @)])
            ELSE Err("MalformedProtoToken")

nextToken(tokenizer) ==
  LET pureXML == /\ tokenizer.xmlStack # <<>>
                 /\ tokenizer.xmlStack[Len(tokenizer.xmlStack)] \notin {"chapter", "section"}
      RECURSIVE loop(_)
      loop(tk) ==
        LET skipped == funcall("skipWhitespace", <<tk, pureXML>>)
            token == funcall("readToken", <<skipped, pureXML>>)
        IN IF skipped.text = <<>> THEN Token(EOI, NULL, skipped)
           ELSE IF token.ok /\ token.category = -1 THEN loop(token.tokenizer)
           ELSE token
      tk0 == [tokenizer EXCEPT !.whitespace = <<>>, !.lexeme = <<>>]
  IN IF tokenizer.savedCodeUnits # <<>>
     THEN Token(CHARACTER, EVLCharacter(Head(tokenizer.savedCodeUnits)),
                [tk0 EXCEPT !.savedCodeUnits = Tail(@)])
     ELSE loop(tk0)

(***************************************************************************)
(* Interface of the core with the IDE                                      *)
(***************************************************************************)
FOUND_NO_FORM == 0
SUCCESS == 1
ERROR == 2
ABORTED == 3
TERMINATED == 4

INITIALIZE == 0
EVALUATE_FIRST_FORM == 1
EVALUATE_ALL_FORMS == 2

Evaluators == {"plainrec", "cps", "oocps", "sboocps", "trampoline", "trampolinepp"}

\* abort is the test of the abort byte that the loops of the trampolines make
genericEval(selected, form, st, abort) ==
  CASE selected = "plainrec" -> funcall("plainrecEval", <<form, st>>)
    [] selected = "cps" -> funcall("cpsEval", <<form, st>>)
    [] selected = "oocps" -> funcall("oocpsEval", <<form, st>>)
    [] selected = "sboocps" -> funcall("sboocpsEval", <<form, st>>)
    [] selected = "trampoline" -> funcall("trampolineEval", <<form, st, abort>>)
    [] selected = "trampolinepp" -> funcall("trampolineppEval", <<form, st, abort>>)
    [] OTHER -> Throw("CannotHappen", st)

(***************************************************************************)
(* Reader.  readObject returns an object or one of the token categories    *)
(* DOT, CLOSING_PARENTHESIS, XML_END_TAG, EOI, here a Sentinel.  The       *)
(* outcome of a function of the reader is the object with the tokenizer    *)
(* as the function leaves it, or the exception with the store.             *)
(***************************************************************************)
Sentinel(category) == [t |-> "sentinel", category |-> category]
Read(object, tokenizer) == [ok |-> TRUE, v |-> object, tokenizer |-> tokenizer]

RECURSIVE evaluateFeatureExpression(_, _)
evaluateFeatureExpression(featureExpression, st) ==
  LET RECURSIVE member(_)
      member(list) ==
        IF list = NIL THEN Ok(FALSE)
        ELSE IF list.t = "cons"
        THEN IF list.car = featureExpression THEN Ok(TRUE) ELSE member(list.cdr)
        ELSE Err("MalformedFeatureList")
      evaluateSymbolFeatureExpression ==
        LET list == GlobalEnvRef(VAL_NS, EVLVariable("*features*"), st)
        IN IF list.ok THEN member(list.v) ELSE Err(list.v)
      evaluateNotFeatureExpression ==
        LET operands == featureExpression.cdr
            operand == evaluateFeatureExpression(operands.car, st)
        IN IF operands.t # "cons" \/ operands.cdr # NIL
           THEN Err("MalformedFeatureExpression")
           ELSE IF operand.ok THEN Ok(~operand.v) ELSE operand
      \* the loops of evaluateAndFeatureExpression (stop = FALSE) and of
      \* evaluateOrFeatureExpression (stop = TRUE)
      RECURSIVE loop(_, _)
      loop(operands, stop) ==
        IF operands = NIL THEN Ok(~stop)
        ELSE IF operands.t = "cons"
        THEN LET operand == evaluateFeatureExpression(operands.car, st)
             IN IF ~operand.ok THEN operand
                ELSE IF operand.v = stop THEN Ok(stop)
                ELSE loop(operands.cdr, stop)
        ELSE Err("MalformedFeatureExpression")
  IN IF featureExpression.t \in {"variable", "keyword"} THEN evaluateSymbolFeatureExpression
     ELSE IF featureExpression.t = "cons"
     THEN CASE featureExpression.car = EVLVariable("not") -> evaluateNotFeatureExpression
            [] featureExpression.car = EVLVariable("and") -> loop(featureExpression.cdr, FALSE)
            [] featureExpression.car = EVLVariable("or") -> loop(featureExpression.cdr, TRUE)
            [] OTHER -> Err("MalformedFeatureExpression")
     ELSE Err("MalformedFeatureExpression")

\* the exception thrown for a category that readObject returns where an
\* object is expected
unexpected(object) ==
  CASE object.category = DOT -> "UnexpectedDot"
    [] object.category = CLOSING_PARENTHESIS -> "UnexpectedClosingParenthesis"
    [] object.category = XML_END_TAG -> "UnexpectedXMLEndTag"
    [] object.category = EOI -> "UnexpectedEndOfInput"

readObject(tokenizer) ==
  LET token == funcall("nextToken", <<tokenizer>>)
      tk == token.tokenizer
      abbreviation(name) == funcall("readAbbreviation", <<tk, EVLVariable(name)>>)
      conditional(object) ==
        IF object.ok /\ object.v = NULL THEN funcall("readObject", <<object.tokenizer>>)
        ELSE object
      skip(element) ==
        IF element.ok THEN funcall("readObject", <<element.tokenizer>>) ELSE element
  IN IF ~token.ok THEN Throw(token.v, tokenizer.st)
     ELSE CASE token.category \in {VOID_TOKEN, BOOLEAN_TOKEN, NUMBER, CHARACTER, STRING_TOKEN,
                                   KEYWORD, VARIABLE_TOKEN} -> Read(token.value, tk)
            [] token.category = QUOTE -> abbreviation("quote")
            [] token.category = QUASIQUOTE -> abbreviation("quasiquote")
            [] token.category = UNQUOTE -> abbreviation("unquote")
            [] token.category = UNQUOTE_SPLICING -> abbreviation("unquote-splicing")
            [] token.category = HASH_PLUS ->
                 conditional(funcall("readReadTimeConditional", <<tk, TRUE>>))
            [] token.category = HASH_MINUS ->
                 conditional(funcall("readReadTimeConditional", <<tk, FALSE>>))
            [] token.category = OPENING_PARENTHESIS -> funcall("readList", <<tk>>)
            [] token.category = HASH_OPENING_PARENTHESIS -> funcall("readVector", <<tk>>)
            [] token.category \in {DOT, CLOSING_PARENTHESIS, EOI} ->
                 Read(Sentinel(token.category), tk)
            [] token.category = XML_START_TAG ->
                 skip(funcall("readXMLElement", <<tk, token.value>>))
            \* tokenizer.value stays the name of the end tag
            [] token.category = XML_END_TAG ->
                 Read([t |-> "sentinel", category |-> XML_END_TAG, value |-> token.value],
                      tk)
            [] token.category \in {XML_EMPTY_ELEMENT_TAG, XML_COMMENT} ->
                 funcall("readObject", <<tk>>)
            [] OTHER -> Throw("CannotHappen", tokenizer.st)

read(tokenizer) ==
  LET object == funcall("readObject", <<tokenizer>>)
  IN IF ~object.ok THEN object
     ELSE IF object.v.t = "sentinel"
     THEN IF object.v.category = EOI THEN Read(NULL, object.tokenizer)
          ELSE Throw(unexpected(object.v), object.tokenizer.st)
     ELSE object

readAbbreviation(tokenizer, variable) ==
  LET object == funcall("readObject", <<tokenizer>>)
  IN IF ~object.ok THEN object
     ELSE IF object.v.t = "sentinel" THEN Throw(unexpected(object.v), object.tokenizer.st)
     ELSE Read(EVLCons(variable, EVLCons(object.v, NIL)), object.tokenizer)

readFeatureExpression(tokenizer) ==
  LET object == funcall("readObject", <<tokenizer>>)
  IN IF ~object.ok THEN object
     ELSE IF object.v.t = "sentinel" THEN Throw(unexpected(object.v), object.tokenizer.st)
     ELSE object

readConditionalizedObject(tokenizer) ==
  LET object == funcall("readObject", <<tokenizer>>)
  IN IF ~object.ok THEN object
     ELSE IF object.v.t = "sentinel" THEN Throw(unexpected(object.v), object.tokenizer.st)
     ELSE object

\* the conditionalized object, or null
\* readReadTimeConditional leaving in the input the object that it skips
readReadTimeConditionalLeavingObject(tokenizer, polarity) ==
  LET featureExpression == readFeatureExpression(tokenizer)
      conditionalizedObject == readConditionalizedObject(featureExpression.tokenizer)
      st1 == conditionalizedObject.tokenizer.st
      value == evaluateFeatureExpression(featureExpression.v, st1)
  IN IF ~featureExpression.ok THEN featureExpression
     ELSE IF ~conditionalizedObject.ok THEN conditionalizedObject
     ELSE IF ~value.ok THEN Throw(value.v, st1)
     ELSE IF value.v = polarity THEN conditionalizedObject
     ELSE Read(NULL, featureExpression.tokenizer)

readReadTimeConditional(tokenizer, polarity) ==
  LET featureExpression == readFeatureExpression(tokenizer)
      conditionalizedObject == readConditionalizedObject(featureExpression.tokenizer)
      st1 == conditionalizedObject.tokenizer.st
      value == evaluateFeatureExpression(featureExpression.v, st1)
  IN IF ~featureExpression.ok THEN featureExpression
     ELSE IF ~conditionalizedObject.ok THEN conditionalizedObject
     ELSE IF ~value.ok THEN Throw(value.v, st1)
     ELSE IF value.v = polarity THEN conditionalizedObject
     ELSE Read(NULL, conditionalizedObject.tokenizer)

readDottedList(tokenizer, array) ==
  LET object == funcall("readObject", <<tokenizer>>)
      object2 == funcall("readObject", <<object.tokenizer>>)
      malformed(o) == Throw("MalformedDottedList", o.tokenizer.st)
  IN IF array = <<>> THEN Throw("MalformedDottedList", tokenizer.st)
     ELSE IF ~object.ok THEN object
     ELSE IF object.v.t = "sentinel"
     THEN IF object.v.category \in {DOT, CLOSING_PARENTHESIS} THEN malformed(object)
          ELSE Throw(unexpected(object.v), object.tokenizer.st)
     ELSE IF ~object2.ok THEN object2
     ELSE IF object2.v.t = "sentinel"
     THEN IF object2.v.category = DOT THEN malformed(object2)
          ELSE IF object2.v.category = CLOSING_PARENTHESIS
          THEN Read(arrayToList(array, object.v), object2.tokenizer)
          ELSE Throw(unexpected(object2.v), object2.tokenizer.st)
     ELSE malformed(object2)

\* array holds the elements of the list read so far
readListLoop(tokenizer, array) ==
  LET object == funcall("readObject", <<tokenizer>>)
  IN IF ~object.ok THEN object
     ELSE IF object.v.t = "sentinel"
     THEN IF object.v.category = DOT
          THEN funcall("readDottedList", <<object.tokenizer, array>>)
          ELSE IF object.v.category = CLOSING_PARENTHESIS
          THEN Read(arrayToList(array, NIL), object.tokenizer)
          ELSE Throw(unexpected(object.v), object.tokenizer.st)
     ELSE funcall("readListLoop", <<object.tokenizer, Append(array, object.v)>>)

readList(tokenizer) == funcall("readListLoop", <<tokenizer, <<>>>>)

readVectorLoop(tokenizer, elements) ==
  LET object == funcall("readObject", <<tokenizer>>)
  IN IF ~object.ok THEN object
     ELSE IF object.v.t = "sentinel"
     THEN IF object.v.category = CLOSING_PARENTHESIS
          THEN Read(EVLVector(elements), object.tokenizer)
          ELSE Throw(unexpected(object.v), object.tokenizer.st)
     ELSE funcall("readVectorLoop", <<object.tokenizer, Append(elements, object.v)>>)

readVector(tokenizer) == funcall("readVectorLoop", <<tokenizer, <<>>>>)

\* the callback of initialize and of evaluateAllForms:
\* object => lastResult = genericEval(object)
callback(tokenizer, object) ==
  LET result == funcall("genericEval", <<tokenizer.selectedEvaluator, object,
                                         tokenizer.st, tokenizer.abort>>)
  IN IF result.ok
     THEN Read(NULL, [tokenizer EXCEPT !.st = result.st, !.lastResult = result.v])
     ELSE result

\* readXMLElement without the call of tokenizer.callback
readXMLElementWithoutCallback(tokenizer, xmlStartTagName) ==
  LET object == funcall("readObject", <<tokenizer>>)
  IN IF ~object.ok THEN object
     ELSE IF object.v.t = "sentinel"
     THEN IF object.v.category = XML_END_TAG
          THEN IF xmlStartTagName = object.v.value THEN Read(NULL, object.tokenizer)
               ELSE Throw("UnmatchedXMLTags", object.tokenizer.st)
          ELSE Throw(unexpected(object.v), object.tokenizer.st)
     ELSE funcall("readXMLElement", <<object.tokenizer, xmlStartTagName>>)

readXMLElement(tokenizer, xmlStartTagName) ==
  LET object == funcall("readObject", <<tokenizer>>)
      called == IF object.tokenizer.callback THEN callback(object.tokenizer, object.v)
                ELSE Read(NULL, object.tokenizer)
  IN IF ~object.ok THEN object
     ELSE IF object.v.t = "sentinel"
     THEN IF object.v.category = XML_END_TAG
          THEN IF xmlStartTagName = object.v.value THEN Read(NULL, object.tokenizer)
               ELSE Throw("UnmatchedXMLTags", object.tokenizer.st)
          ELSE Throw(unexpected(object.v), object.tokenizer.st)
     ELSE IF called.ok THEN funcall("readXMLElement", <<called.tokenizer, xmlStartTagName>>)
     ELSE called

foundNoForm == [status |-> FOUND_NO_FORM, output |-> <<>>]

success(output) == [status |-> SUCCESS, output |-> output]

\* abortedOrError answering with the status of a success
abortedOrErrorAsSuccess(exception) == [status |-> SUCCESS, output |-> <<exception>>]

\* the output of an error is its message, which is modelled by the name of the error
abortedOrError(exception) ==
  IF exception = "Aborted" THEN [status |-> ABORTED, output |-> <<>>]
  ELSE [status |-> ERROR, output |-> <<exception>>]

\* lastResult.allValues().map(object => object.toString())
output(result) ==
  [i \in 1..Len(allValues(result)) |-> toString(allValues(result)[i])]

initializeFeatureList(features, st) ==
  LET RECURSIVE intern(_, _)
      intern(i, st1) ==
        IF i > Len(features) THEN st1 ELSE intern(i + 1, internVariable(features[i], st1))
      list == arrayToList([i \in 1..Len(features) |-> EVLVariable(features[i])], NIL)
  IN GlobalEnvSet(VAL_NS, EVLVariable("*features*"), list,
                  internVariable("*features*", intern(1, st))).st

(***************************************************************************)
(* EVL to XML converter.  The XML text is a string of the model; the       *)
(* whitespace and the lexeme of the tokenizer are sequences of elements.   *)
(***************************************************************************)
XML_TOKEN == 100
EVL_TOKEN == 101
EOL_COMMENT == 102

XML_CONTEXT == 0
EVL_CONTEXT == 1

\* string.replace(/[<>&]/g, ...)
xmlEscape(string) ==
  concat([i \in 1..Len(string) |->
            CASE string[i] = "<" -> "&lt;"
              [] string[i] = ">" -> "&gt;"
              [] string[i] = "&" -> "&amp;"
              [] OTHER -> string[i]])

\* contextStack[contextStack.length - 1], which is undefined (-1) on the
\* empty array
lastContext(contextStack) ==
  IF contextStack = <<>> THEN -1 ELSE contextStack[Len(contextStack)]

RECURSIVE readEndOfLineCommentLoop(_, _, _, _)
readEndOfLineCommentLoop(tokenizer, whitespace, lexeme, contextStack) ==
  LET token == funcall("nextToken", <<tokenizer>>)
      tk == token.tokenizer
      more == lexeme \o tk.whitespace \o tk.lexeme
  IN IF ~token.ok THEN token
     ELSE CASE token.category = XML_START_TAG ->
                 funcall("readEndOfLineCommentLoop", <<tk, whitespace, more,
                        Append(contextStack, XML_CONTEXT)>>)
            [] token.category = XML_END_TAG ->
                 IF contextStack = <<>>
                 THEN [ok |-> TRUE,
                       tokenizer |-> [tk EXCEPT !.whitespace = whitespace, !.lexeme = more]]
                 ELSE funcall("readEndOfLineCommentLoop", <<tk, whitespace, more,
                        SubSeq(contextStack, 1, Len(contextStack) - 1)>>)
            [] token.category \in {XML_EMPTY_ELEMENT_TAG, XML_COMMENT} ->
                 funcall("readEndOfLineCommentLoop", <<tk, whitespace, more, contextStack>>)
            [] token.category = EOI -> Err("EVLToXMLConverterError")
            [] OTHER -> Err("CannotHappen")

readEndOfLineComment(tokenizer) ==
  funcall("readEndOfLineCommentLoop", <<tokenizer, tokenizer.whitespace, tokenizer.lexeme,
                                        <<>>>>)

\* sketchyRead with a closing parenthesis that pops the context stack whatever
\* the last context is
sketchyReadPoppingAnyContext(tokenizer, contextStack) ==
  LET next == funcall("nextToken", <<tokenizer>>)
      tk == next.tokenizer
      Sketch(token, tokenizer1, contextStack1) ==
        [ok |-> TRUE, token |-> token, tokenizer |-> tokenizer1,
         contextStack |-> contextStack1]
      pop == SubSeq(contextStack, 1, Len(contextStack) - 1)
      comment == readEndOfLineComment(tk)
  IN IF ~next.ok THEN next
     ELSE CASE next.category \in {VOID_TOKEN, BOOLEAN_TOKEN, NUMBER, CHARACTER, STRING_TOKEN,
                                  KEYWORD, VARIABLE_TOKEN, QUOTE, QUASIQUOTE, UNQUOTE,
                                  UNQUOTE_SPLICING, HASH_PLUS, HASH_MINUS, DOT} ->
                 Sketch(EVL_TOKEN, tk, contextStack)
            [] next.category \in {OPENING_PARENTHESIS, HASH_OPENING_PARENTHESIS} ->
                 Sketch(EVL_TOKEN, tk, Append(contextStack, EVL_CONTEXT))
            [] next.category = CLOSING_PARENTHESIS ->
                 IF contextStack = <<>> THEN Err("EVLToXMLConverterError")
                 ELSE Sketch(EVL_TOKEN, tk, pop)
            [] next.category = XML_START_TAG ->
                 IF next.value = "comment"
                 THEN IF comment.ok THEN Sketch(EOL_COMMENT, comment.tokenizer, contextStack)
                      ELSE comment
                 ELSE Sketch(XML_TOKEN, tk, Append(contextStack, XML_CONTEXT))
            [] next.category = XML_END_TAG ->
                 IF lastContext(contextStack) # XML_CONTEXT THEN Err("EVLToXMLConverterError")
                 ELSE Sketch(XML_TOKEN, tk, pop)
            [] next.category \in {XML_EMPTY_ELEMENT_TAG, XML_COMMENT} ->
                 Sketch(XML_TOKEN, tk, contextStack)
            [] next.category = EOI ->
                 IF contextStack # <<>> THEN Err("EVLToXMLConverterError")
                 ELSE Sketch(EOI, tk, contextStack)
            [] OTHER -> Err("CannotHappen")

\* the token, the tokenizer after it, and the context stack after it
sketchyRead(tokenizer, contextStack) ==
  LET next == funcall("nextToken", <<tokenizer>>)
      tk == next.tokenizer
      Sketch(token, tokenizer1, contextStack1) ==
        [ok |-> TRUE, token |-> token, tokenizer |-> tokenizer1,
         contextStack |-> contextStack1]
      pop == SubSeq(contextStack, 1, Len(contextStack) - 1)
      comment == readEndOfLineComment(tk)
  IN IF ~next.ok THEN next
     ELSE CASE next.category \in {VOID_TOKEN, BOOLEAN_TOKEN, NUMBER, CHARACTER, STRING_TOKEN,
                                  KEYWORD, VARIABLE_TOKEN, QUOTE, QUASIQUOTE, UNQUOTE,
                                  UNQUOTE_SPLICING, HASH_PLUS, HASH_MINUS, DOT} ->
                 Sketch(EVL_TOKEN, tk, contextStack)
            [] next.category \in {OPENING_PARENTHESIS, HASH_OPENING_PARENTHESIS} ->
                 Sketch(EVL_TOKEN, tk, Append(contextStack, EVL_CONTEXT))
            [] next.category = CLOSING_PARENTHESIS ->
                 IF lastContext(contextStack) # EVL_CONTEXT THEN Err("EVLToXMLConverterError")
                 ELSE Sketch(EVL_TOKEN, tk, pop)
            [] next.category = XML_START_TAG ->
                 IF next.value = "comment"
                 THEN IF comment.ok THEN Sketch(EOL_COMMENT, comment.tokenizer, contextStack)
                      ELSE comment
                 ELSE Sketch(XML_TOKEN, tk, Append(contextStack, XML_CONTEXT))
            [] next.category = XML_END_TAG ->
                 IF lastContext(contextStack) # XML_CONTEXT THEN Err("EVLToXMLConverterError")
                 ELSE Sketch(XML_TOKEN, tk, pop)
            [] next.category \in {XML_EMPTY_ELEMENT_TAG, XML_COMMENT} ->
                 Sketch(XML_TOKEN, tk, contextStack)
            [] next.category = EOI ->
                 IF contextStack # <<>> THEN Err("EVLToXMLConverterError")
                 ELSE Sketch(EOI, tk, contextStack)
            [] OTHER -> Err("CannotHappen")

isXMLToken(token) == token = XML_TOKEN

isEVLToken(token) == token = EVL_TOKEN \/ token = EOL_COMMENT

countNewlines(string) == Cardinality({i \in 1..Len(string) : string[i] = "\n"})

convertXMLWhitespace(previousToken, whitespace, token) ==
  IF isXMLToken(previousToken) /\ isEVLToken(token)
  THEN concat(whitespace) \o "<toplevelcode><blockcode>"
  ELSE IF isEVLToken(previousToken) /\ isEVLToken(token)
  THEN IF countNewlines(whitespace) >= 2
       THEN "</blockcode></toplevelcode>" \o concat(whitespace) \o "<toplevelcode><blockcode>"
       ELSE concat(whitespace)
  ELSE IF isEVLToken(previousToken) /\ isXMLToken(token)
  THEN "</blockcode></toplevelcode>" \o concat(whitespace)
  ELSE concat(whitespace)

countSpacesAfterFirstNewline(string) ==
  LET newlines == {i \in 1..Len(string) : string[i] = "\n"}
      first == CHOOSE i \in newlines : \A j \in newlines : i <= j
      others == {i \in first + 1..Len(string) : string[i] # " "}
  IN IF newlines = {} THEN 0
     ELSE IF others = {} THEN Len(string) - first
     ELSE (CHOOSE i \in others : \A j \in others : i <= j) - first - 1

convertEVLWhitespace(previousToken, whitespace, token) ==
  IF isEVLToken(previousToken) /\ isXMLToken(token)
  THEN "</blockcode><indentation style=\"margin-left: "
         \o ToString(countSpacesAfterFirstNewline(whitespace))
         \o "ch;\"><blockcomment>" \o concat(whitespace)
  ELSE IF isXMLToken(previousToken) /\ isEVLToken(token)
  THEN "</blockcomment></indentation><blockcode>" \o concat(whitespace)
  ELSE concat(whitespace)

\* the whitespace before the token as the loop of doConvertEVLToXML adds it:
\* the second test is the assignment context = EVL_CONTEXT, whose value is
\* EVL_CONTEXT, which is not zero
convertWhitespace(context, previousToken, whitespace, token) ==
  IF context = XML_CONTEXT THEN convertXMLWhitespace(previousToken, whitespace, token)
  ELSE IF EVL_CONTEXT # 0 THEN convertEVLWhitespace(previousToken, whitespace, token)
  ELSE concat(whitespace)

RECURSIVE doConvertEVLToXMLLoop(_, _, _, _, _, _)
\* tokens is the list of what the loop has done so far: the context in which
\* it read each token, the run of whitespace and what it added for it
doConvertEVLToXMLLoop(tokenizer, xml, contextStack, previousToken, context, tokens) ==
  LET sketch == funcall("sketchyRead", <<tokenizer, contextStack>>)
      token == sketch.token
      tk == sketch.tokenizer
      added == convertWhitespace(context, previousToken, tk.whitespace, token)
      lexeme == IF token = EVL_TOKEN THEN xmlEscape(tk.lexeme) ELSE concat(tk.lexeme)
  IN IF ~sketch.ok THEN sketch
     ELSE IF token = EOI
     THEN [ok |-> TRUE, v |-> xml \o concat(tk.whitespace), tokens |-> tokens,
           tokenizer |-> tk]
     ELSE funcall("doConvertEVLToXMLLoop", <<
            tk, xml \o added \o lexeme, sketch.contextStack, token,
            lastContext(sketch.contextStack),
            Append(tokens, [context |-> context, token |-> token,
                            whitespace |-> tk.whitespace, added |-> added])>>)

doConvertEVLToXML(tokenizer) ==
  funcall("doConvertEVLToXMLLoop", <<tokenizer, "", <<>>, BOI, lastContext(<<>>), <<>>>>)

\* convertEVLToXML(text): the response, with the tokens of doConvertEVLToXML
convertEVLToXML(text, st) ==
  LET tokenizer == [Tokenizer(text, FALSE, "null", FALSE, st) EXCEPT !.convertEVLToXML = TRUE]
      xml == doConvertEVLToXML(tokenizer)
  IN IF xml.ok THEN success(<<xml.v>>) @@ [tokens |-> xml.tokens]
     ELSE abortedOrError(xml.v) @@ [tokens |-> <<>>]

(***************************************************************************)
(* Command line.  The core runs inside Node: abortSignalArray is null, and *)
(* the functions of the interface are called one after the other by the    *)
(* callback of import('node:fs').  An argument of the command line is a    *)
(* string; Arguments gives the text that an argument stands for: the       *)
(* contents of the file of that name, or the form itself.  call holds the  *)
(* command line, what console.log has printed, the statuses of the         *)
(* responses, the positions in argv of the operations that were executed,  *)
(* and the exit code of the process.                                       *)
(***************************************************************************)
evaluatorOptions ==
  {"--plainrec", "--cps", "--oocps", "--sboocps", "--trampoline", "--trampolinepp"}

\* process.argv[n++].substring(2)
substring2(option) ==
  CASE option = "--plainrec" -> "plainrec"
    [] option = "--cps" -> "cps"
    [] option = "--oocps" -> "oocps"
    [] option = "--sboocps" -> "sboocps"
    [] option = "--trampoline" -> "trampoline"
    [] option = "--trampolinepp" -> "trampolinepp"

\* evaluateFirstForm(text) of the core, abortSignalArray being null: the
\* response and the store
coreEvaluateFirstForm(text, selected, st0) ==
  LET object == funcall("read", <<Tokenizer(text, FALSE, selected, FALSE, st0)>>)
      result == funcall("genericEval", <<selected, object.v, object.tokenizer.st, FALSE>>)
  IN IF ~object.ok
     THEN IF object.v \in {"TruncatedToken", "UnexpectedEndOfInput"}
          THEN [response |-> foundNoForm, st |-> object.st]
          ELSE [response |-> abortedOrError(object.v), st |-> object.st]
     ELSE IF object.v = NULL THEN [response |-> foundNoForm, st |-> object.tokenizer.st]
     ELSE IF ~result.ok THEN [response |-> abortedOrError(result.v), st |-> result.st]
     ELSE [response |-> success(output(result.v)), st |-> result.st]

RECURSIVE coreEvaluateAllFormsLoop(_, _)
coreEvaluateAllFormsLoop(tokenizer, selected) ==
  LET object == funcall("read", <<tokenizer>>)
      result == funcall("genericEval", <<selected, object.v, object.tokenizer.st, FALSE>>)
  IN IF ~object.ok THEN [response |-> abortedOrError(object.v), st |-> object.st]
     ELSE IF object.v = NULL
     THEN [response |-> success(output(object.tokenizer.lastResult)),
           st |-> object.tokenizer.st]
     ELSE IF ~result.ok THEN [response |-> abortedOrError(result.v), st |-> result.st]
     ELSE funcall("coreEvaluateAllFormsLoop", <<
            [object.tokenizer EXCEPT !.st = result.st, !.lastResult = result.v], selected>>)

\* evaluateAllForms(text) of the core, abortSignalArray being null
coreEvaluateAllForms(text, selected, st0) ==
  funcall("coreEvaluateAllFormsLoop", <<Tokenizer(text, TRUE, selected, FALSE, st0), selected>>)

usageLines ==
  <<"usage:",
    "--plainrec: selects the plain recursive evaluator",
    "--cps: selects the continuation passing style evaluator",
    "--oocps: selects the object-oriented CPS evaluator",
    "--sboocps: selects the stack-based object-oriented CPS evaluator",
    "--trampoline: selects the trampoline evaluator",
    "--trampolinepp: selects the trampoline++ evaluator (DEFAULT)",
    "-l <file>: loads the EVL file",
    "-e <form>: evaluates the form",
    "--convert <file>: converts the EVL file to XML">>

\* usage(): process.exit() is called without a code and nothing assigns
\* process.exitCode: the process ends with the exit code 0
usage(process) ==
  [process EXCEPT !.console = @ \o usageLines, !.exited = TRUE, !.exitCode = 0]

\* printToConsole(response); process.exit() as in usage
printToConsole(response, process) ==
  CASE response.status = SUCCESS -> [process EXCEPT !.console = Append(@, response.output)]
    [] response.status = ERROR ->
         [process EXCEPT !.console = Append(@, response.output),
                         !.exited = TRUE, !.exitCode = 0]
    [] OTHER -> process

\* the texts of the arguments of the command line
Arguments ==
  [a \in {"a.evl", "b.evl", "none.evl", "error.evl", "open.evl"} |->
     CASE a = "a.evl" -> <<"(", "vset", "!", " ", "a", " ", "1", ")">>
       [] a = "b.evl" -> <<"(", "vset", "!", " ", "b", " ", "a", ")">>
       [] a = "none.evl" -> <<>>
       [] a = "error.evl" -> <<")">>
       [] a = "open.evl" -> <<"(">>]

RECURSIVE mainLoop(_, _)
\* the loop of the callback: n is the index in argv, from 1, of the next
\* argument; when the loop ends the callback returns and the process ends
\* with the exit code 0
mainLoop(n, process) ==
  LET argv == process.argv
      nargs == Len(argv)
      arg == argv[n]
      text == Arguments[argv[n + 1]]
      selected == process.selectedEvaluator
      evaluated == IF arg = "-l" THEN coreEvaluateAllForms(text, selected, process.st)
                   ELSE funcall("coreEvaluateFirstForm", <<text, selected, process.st>>)
      converted == funcall("convertEVLToXML", <<text, process.st>>)
      response == IF arg = "--convert" THEN [status |-> converted.status,
                                             output |-> converted.output]
                  ELSE evaluated.response
      printed == printToConsole(response,
                                [process EXCEPT
                                   !.st = IF arg = "--convert" THEN @ ELSE evaluated.st,
                                   !.statuses = Append(@, response.status),
                                   !.operations = Append(@, n)])
  IN IF n > nargs THEN [process EXCEPT !.exited = TRUE, !.exitCode = 0]
     ELSE IF arg \notin {"-l", "-e", "--convert"} THEN usage(process)
     ELSE IF n = nargs THEN usage(process)
     ELSE IF printed.exited THEN printed
     ELSE funcall("mainLoop", <<n + 2, printed>>)

\* the callback of import('node:fs') for the command line argv (without
\* 'node' and 'core.js')
main(argv, st0) ==
  LET option == argv # <<>> /\ argv[1] \in evaluatorOptions
      selected == IF option THEN substring2(argv[1]) ELSE "trampolinepp"
  IN funcall("mainLoop", <<IF option THEN 2 ELSE 1,
              [argv |-> argv, selectedEvaluator |-> selected,
               st |-> initializeFeatureList(<<selected>>, st0),
               console |-> <<>>, statuses |-> <<>>, operations |-> <<>>,
               exited |-> FALSE, exitCode |-> -1]>>)

funcall(f, a) ==
  CASE f = "pairPrimFunParameters" -> pairPrimFunParameters(a[1], a[2], a[3], a[4])
    [] f = "pairClosureParameters" -> pairClosureParameters(a[1], a[2], a[3], a[4])
    [] f = "jsFunction" -> jsFunction(a[1], a[2], a[3])
    [] f = "plainrecEvalForm" -> plainrecEvalForm(a[1], a[2], a[3], a[4], a[5])
    [] f = "plainrecEvalForms" -> plainrecEvalForms(a[1], a[2], a[3], a[4], a[5])
    [] f = "plainrecEvalOperands" -> plainrecEvalOperands(a[1], a[2], a[3], a[4], a[5], a[6], a[7], a[8])
    [] f = "plainrecInvokeFun" -> plainrecInvokeFun(a[1], a[2], a[3], a[4], a[5], a[6], a[7], a[8])
    [] f = "plainrecEval" -> plainrecEval(a[1], a[2])
    [] f = "cpsEvalForm" -> cpsEvalForm(a[1], a[2], a[3], a[4], a[5], a[6])
    [] f = "cpsInvokeCont" -> cpsInvokeCont(a[1], a[2], a[3], a[4])
    [] f = "cpsEvalForms" -> cpsEvalForms(a[1], a[2], a[3], a[4], a[5], a[6])
    [] f = "cpsForEachLoop" -> cpsForEachLoop(a[1], a[2], a[3], a[4], a[5], a[6], a[7])
    [] f = "cpsEvalOperands" -> cpsEvalOperands(a[1], a[2], a[3], a[4], a[5], a[6], a[7], a[8], a[9])
    [] f = "cpsInvokeFun" -> cpsInvokeFun(a[1], a[2], a[3], a[4], a[5], a[6], a[7], a[8], a[9])
    [] f = "cpsEval" -> cpsEval(a[1], a[2])
    [] f = "oocpsEvalForm" -> oocpsEvalForm(a[1], a[2], a[3], a[4], a[5], a[6])
    [] f = "oocpsInvokeCont" -> oocpsInvokeCont(a[1], a[2], a[3], a[4])
    [] f = "oocpsEvalForms" -> oocpsEvalForms(a[1], a[2], a[3], a[4], a[5], a[6])
    [] f = "oocpsForEachLoop" -> oocpsForEachLoop(a[1], a[2], a[3], a[4], a[5], a[6], a[7])
    [] f = "oocpsEvalOperands" -> oocpsEvalOperands(a[1], a[2], a[3], a[4], a[5], a[6], a[7], a[8], a[9])
    [] f = "oocpsInvokeFun" -> oocpsInvokeFun(a[1], a[2], a[3], a[4], a[5], a[6], a[7], a[8], a[9])
    [] f = "oocpsEval" -> oocpsEval(a[1], a[2])
    [] f = "sboocpsEvalForm" -> sboocpsEvalForm(a[1], a[2], a[3], a[4])
    [] f = "sboocpsInvokeCont" -> sboocpsInvokeCont(a[1], a[2], a[3])
    [] f = "sboocpsEvalForms" -> sboocpsEvalForms(a[1], a[2], a[3], a[4])
    [] f = "sboocpsForEachLoop" -> sboocpsForEachLoop(a[1], a[2], a[3], a[4], a[5])
    [] f = "sboocpsEvalOperands" -> sboocpsEvalOperands(a[1], a[2], a[3], a[4], a[5], a[6], a[7])
    [] f = "sboocpsInvokeFun" -> sboocpsInvokeFun(a[1], a[2], a[3], a[4], a[5], a[6], a[7])
    [] f = "sboocpsEval" -> sboocpsEval(a[1], a[2])
    [] f = "trampolineEvalOperands" -> trampolineEvalOperands(a[1], a[2], a[3], a[4], a[5], a[6])
    [] f = "trampolineEvalForm" -> trampolineEvalForm(a[1], a[2], a[3])
    [] f = "trampolineInvokeFun" -> trampolineInvokeFun(a[1], a[2], a[3], a[4], a[5], a[6])
    [] f = "trampolineInvoke" -> trampolineInvoke(a[1], a[2], a[3])
    [] f = "trampolineBounce" -> trampolineBounce(a[1], a[2], a[3])
    [] f = "trampolineLoop" -> trampolineLoop(a[1], a[2], a[3], a[4])
    [] f = "trampolineEval" -> trampolineEval(a[1], a[2], a[3])
    [] f = "trampolineppFormEval" -> trampolineppFormEval(a[1], a[2], a[3])
    [] f = "trampolineppEvalOperands" -> trampolineppEvalOperands(a[1], a[2], a[3], a[4], a[5])
    [] f = "trampolineppInvokeFun" -> trampolineppInvokeFun(a[1], a[2], a[3], a[4], a[5])
    [] f = "trampolineppInvoke" -> trampolineppInvoke(a[1], a[2], a[3])
    [] f = "trampolineppBounce" -> trampolineppBounce(a[1], a[2], a[3])
    [] f = "trampolineppLoop" -> trampolineppLoop(a[1], a[2], a[3], a[4])
    [] f = "trampolineppPreprocessForm" -> trampolineppPreprocessForm(a[1], a[2], a[3], a[4], a[5])
    [] f = "trampolineppPreprocessForms" -> trampolineppPreprocessForms(a[1], a[2], a[3], a[4], a[5])
    [] f = "trampolineppPreprocessCall" -> trampolineppPreprocessCall(a[1], a[2], a[3], a[4], a[5], a[6], a[7])
    [] f = "trampolineppEval" -> trampolineppEval(a[1], a[2], a[3])
    [] f = "genericEval" -> genericEval(a[1], a[2], a[3], a[4])
    [] f = "skipWhitespace" -> skipWhitespace(a[1], a[2])
    [] f = "readEscapeSequence" -> readEscapeSequence(a[1])
    [] f = "readString" -> readString(a[1])
    [] f = "readHashConstruct" -> readHashConstruct(a[1])
    [] f = "readXMLMarkup" -> readXMLMarkup(a[1], a[2])
    [] f = "readProtoToken" -> readProtoToken(a[1])
    [] f = "parseNumber" -> parseNumber(a[1])
    [] f = "readToken" -> readToken(a[1], a[2])
    [] f = "nextToken" -> nextToken(a[1])
    [] f = "readObject" -> readObject(a[1])
    [] f = "read" -> read(a[1])
    [] f = "readAbbreviation" -> readAbbreviation(a[1], a[2])
    [] f = "readReadTimeConditional" -> readReadTimeConditional(a[1], a[2])
    [] f = "readDottedList" -> readDottedList(a[1], a[2])
    [] f = "readListLoop" -> readListLoop(a[1], a[2])
    [] f = "readList" -> readList(a[1])
    [] f = "readVectorLoop" -> readVectorLoop(a[1], a[2])
    [] f = "readVector" -> readVector(a[1])
    [] f = "readXMLElement" -> readXMLElement(a[1], a[2])
    [] f = "readEndOfLineCommentLoop" -> readEndOfLineCommentLoop(a[1], a[2], a[3], a[4])
    [] f = "sketchyRead" -> sketchyRead(a[1], a[2])
    [] f = "doConvertEVLToXMLLoop" -> doConvertEVLToXMLLoop(a[1], a[2], a[3], a[4], a[5], a[6])
    [] f = "convertEVLToXML" -> convertEVLToXML(a[1], a[2])
    [] f = "coreEvaluateFirstForm" -> coreEvaluateFirstForm(a[1], a[2], a[3])
    [] f = "coreEvaluateAllFormsLoop" -> coreEvaluateAllFormsLoop(a[1], a[2])
    [] f = "mainLoop" -> mainLoop(a[1], a[2])
    [] f = "main" -> main(a[1], a[2])

(***************************************************************************)
(* Printer.  A JavaScript string of the model cannot be taken apart: the   *)
(* objects that are printed and read again are given by terms, which hold  *)
(* the characters of their strings and of their names.  objectOf gives the *)
(* object of a term and toText the text of its toString(), an element per  *)
(* character.  An object that new made before the text is read carries an *)
(* id (a cons, a symbol made by make-variable); the objects that the       *)
(* reader makes carry none, and an interned symbol is the one of its name. *)
(***************************************************************************)
\* '\\U{' + codePoint.toString(16).toUpperCase() + '}'
unicodeEscape(char) ==
  <<"\\", "U", "{", CHOOSE codePoint \in DOMAIN CodePoints : CodePoints[codePoint] = char, "}">>

escapeStringCharacter(char) ==
  CASE char = "\\" -> <<"\\", "\\">>
    [] char = "\"" -> <<"\\", "\"">>
    [] char = "\t" -> <<"\\", "t">>
    [] char = "\n" -> <<"\\", "n">>
    [] char = "VT" -> <<"\\", "v">>
    [] char = "\f" -> <<"\\", "f">>
    [] char = "\r" -> <<"\\", "r">>
    [] OTHER -> <<char>>

\* escapeProtoTokenCharacter leaving every character as it is
escapeProtoTokenCharacterPlain(char) == <<char>>

escapeProtoTokenCharacter(char) ==
  IF isWhitespaceCharacter(char) \/ isSyntaxCharacter(char) THEN unicodeEscape(char)
  ELSE CASE char = "\\" -> <<"\\", "\\">>
         [] char = "<" -> <<"\\", "<">>
         [] OTHER -> <<char>>

RECURSIVE escapeCharacters(_, _)
\* the characters of the terms are neither surrogates nor control
\* characters other than whitespace nor noncharacters
escapeCharacters(chars, protoToken) ==
  IF chars = <<>> THEN <<>>
  ELSE (IF protoToken THEN escapeProtoTokenCharacter(Head(chars))
        ELSE escapeStringCharacter(Head(chars)))
         \o escapeCharacters(Tail(chars), protoToken)

\* this.jsValue.toString() of an integer
numberToString(jsValue) ==
  IF jsValue < 0 THEN <<"-", ToString(-jsValue)>> ELSE <<ToString(jsValue)>>

RECURSIVE toText(_)
\* the toString() methods
toText(term) ==
  LET RECURSIVE elements(_)
      elements(list) ==
        toText(list.car)
          \o (IF list.cdr.k = "cons" THEN <<" ">> \o elements(list.cdr)
              ELSE IF list.cdr.k = "nil" THEN <<>>
              ELSE <<" ", ".", " ">> \o toText(list.cdr))
  IN CASE term.k = "void" -> <<"#", "v">>
       [] term.k = "boolean" -> IF term.boolean THEN <<"#", "t">> ELSE <<"#", "f">>
       [] term.k = "number" -> numberToString(term.number)
       [] term.k = "string" -> <<"\"">> \o escapeCharacters(term.chars, FALSE) \o <<"\"">>
       [] term.k = "keyword" -> <<":">> \o escapeCharacters(term.chars, TRUE)
       [] term.k = "variable" -> escapeCharacters(term.chars, TRUE)
       [] term.k = "nil" -> <<"(", ")">>
       [] term.k = "cons" -> <<"(">> \o elements(term) \o <<")">>

RECURSIVE objectOf(_)
objectOf(term) ==
  CASE term.k = "void" -> VOID
    [] term.k = "boolean" -> EVLBoolean(term.boolean)
    [] term.k = "number" -> EVLNumber(term.number)
    [] term.k = "string" -> EVLString(concat(term.chars))
    [] term.k = "keyword" -> EVLKeyword(concat(term.chars))
    [] term.k = "variable" ->
         IF term.id = 0 THEN EVLVariable(concat(term.chars))
         ELSE [t |-> "variable", name |-> concat(term.chars), id |-> term.id]
    [] term.k = "nil" -> NIL
    [] term.k = "cons" ->
         [t |-> "cons", car |-> objectOf(term.car), cdr |-> objectOf(term.cdr),
          id |-> term.id]

\* the eql methods: this === that is the equality of two objects with
\* their ids
eql(this, that) ==
  CASE this.t \in {"number", "character", "string"} ->
         that.t = this.t /\ this.jsValue = that.jsValue
    [] OTHER -> this.t = that.t /\ this = that

(***************************************************************************)
(* The evaluator as a system: the host (src/src/evaluator.js), the Worker  *)
(* that runs the core, and the two message channels between them.          *)
(*                                                                         *)
(* Host: evaluator is 0 for null, else the number of the Worker created    *)
(* last; jobs maps the ids of the pending jobs to their requests (the      *)
(* callback of a job is the closure made for its request); callbacks logs  *)
(* the invocations of the callbacks; abortSignalBuffer is the shared byte. *)
(* Channels: requests is the message queue of the current Worker,          *)
(* responses the messages posted by the Workers and not yet dispatched.    *)
(* Core: abortSignalArray is FALSE for null and TRUE once it views the     *)
(* shared byte; st is the store; job is the position of the handler that   *)
(* is running: its request, what its tokenizer has still to read (text and *)
(* savedCodeUnits; xmlStack is empty between two calls of read), the files *)
(* that initialize has still to read, lastResult, and, inside the loop of  *)
(* a trampoline, the bounce and a count of the iterations made.            *)
(* call is the call of a function of the core that SpecCalls examines on   *)
(* its own: the function, its arguments, the store before the call and     *)
(* what the call returned or threw; st is then the store after the call.   *)
(***************************************************************************)
VARIABLES evaluator, jobId, jobs, callbacks, abortSignalBuffer,
          requests, responses,
          abortSignalArray, selectedEvaluator, st, job, call

host == <<evaluator, jobId, jobs, callbacks>>
core == <<abortSignalArray, selectedEvaluator, st, job>>
vars == <<evaluator, jobId, jobs, callbacks, abortSignalBuffer, requests, responses,
          abortSignalArray, selectedEvaluator, st, job, call>>

\* no call is examined
noCall == [f |-> "none"]

idle == [pc |-> "idle", id |-> -1, action |-> -1, text |-> <<>>, savedCodeUnits |-> <<>>,
         files |-> <<>>, lastResult |-> VOID, bounce |-> NULL, n |-> 0]

\* a Worker that has just loaded the core
Worker == [abortSignalArray |-> FALSE, selectedEvaluator |-> "null", st |-> loadedCore,
           job |-> idle]

\* abortSignalArray !== null && abortSignalArray[0] === 1
aborting == abortSignalArray /\ abortSignalBuffer = 1

----------------------------------------------------------------------------
(* Host *)

\* createEvaluator without jobs.clear()
createEvaluatorKeepingJobs(selected, evlFiles) ==
  /\ jobId < MaxJobs
  /\ LET ids == DOMAIN jobs
         pending == [k \in 1..Cardinality(ids) |->
                       CHOOSE id \in ids : Cardinality({j \in ids : j < id}) = k - 1]
         input == [selectedEvaluator |-> selected, evlFiles |-> evlFiles]
     IN /\ callbacks' = callbacks \o [k \in 1..Len(pending) |->
                          [id |-> pending[k], status |-> TERMINATED, output |-> <<>>]]
        /\ jobs' = jobs @@ (jobId :> [action |-> INITIALIZE, input |-> input])
        /\ requests' = <<[id |-> jobId, action |-> INITIALIZE, input |-> input]>>
  /\ evaluator' = evaluator + 1
  /\ jobId' = jobId + 1
  /\ \E lost \in BOOLEAN : responses' = IF lost THEN <<>> ELSE responses
  /\ abortSignalArray' = Worker.abortSignalArray
  /\ selectedEvaluator' = Worker.selectedEvaluator
  /\ st' = Worker.st
  /\ job' = Worker.job
  /\ UNCHANGED <<abortSignalBuffer, call>>

\* createEvaluator sending INITIALIZE to the Worker there is, when there is one
createEvaluatorKeepingWorker(selected, evlFiles) ==
  /\ jobId < MaxJobs
  /\ LET input == [selectedEvaluator |-> selected, evlFiles |-> evlFiles]
     IN /\ jobs' = jobs @@ (jobId :> [action |-> INITIALIZE, input |-> input])
        /\ requests' = Append(requests, [id |-> jobId, action |-> INITIALIZE,
                                         input |-> input])
  /\ evaluator' = IF evaluator = 0 THEN 1 ELSE evaluator
  /\ jobId' = jobId + 1
  /\ UNCHANGED <<callbacks, abortSignalBuffer, responses, core, call>>

createEvaluator(selected, evlFiles) ==
  /\ jobId < MaxJobs
  /\ LET ids == DOMAIN jobs
         pending == [k \in 1..Cardinality(ids) |->
                       CHOOSE id \in ids : Cardinality({j \in ids : j < id}) = k - 1]
         input == [selectedEvaluator |-> selected, evlFiles |-> evlFiles]
     IN /\ callbacks' = callbacks \o [k \in 1..Len(pending) |->
                          [id |-> pending[k], status |-> TERMINATED, output |-> <<>>]]
        /\ jobs' = (jobId :> [action |-> INITIALIZE, input |-> input])
        /\ requests' = <<[id |-> jobId, action |-> INITIALIZE, input |-> input]>>
  /\ evaluator' = evaluator + 1
  /\ jobId' = jobId + 1
  \* the messages of the terminated Worker not yet dispatched are dispatched or lost
  /\ \E lost \in BOOLEAN : responses' = IF lost THEN <<>> ELSE responses
  /\ abortSignalArray' = Worker.abortSignalArray
  /\ selectedEvaluator' = Worker.selectedEvaluator
  /\ st' = Worker.st
  /\ job' = Worker.job
  /\ UNCHANGED <<abortSignalBuffer, call>>

\* with evaluator null, postMessage throws after jobId is incremented
sendRequest(action, input) ==
  /\ jobId < MaxJobs
  /\ jobId' = jobId + 1
  /\ IF evaluator = 0 THEN UNCHANGED <<requests, jobs>>
     ELSE /\ requests' = Append(requests, [id |-> jobId, action |-> action, input |-> input])
          /\ jobs' = jobs @@ (jobId :> [action |-> action, input |-> input])
  /\ UNCHANGED <<evaluator, callbacks, abortSignalBuffer, responses, core, call>>

evaluateFirstForm(text) == sendRequest(EVALUATE_FIRST_FORM, text)

evaluateAllForms(text) == sendRequest(EVALUATE_ALL_FORMS, text)

abortEvaluation ==
  /\ abortSignalBuffer' = 1
  /\ UNCHANGED <<host, requests, responses, core, call>>

\* evaluator.onmessage without jobs.delete(event.data.id)
evaluatorOnmessageKeepingJob ==
  /\ responses # <<>>
  /\ LET data == Head(responses)
     IN IF data.id \in DOMAIN jobs
        THEN /\ callbacks' = Append(callbacks, [id |-> data.id, status |-> data.status,
                                                output |-> data.output])
             /\ UNCHANGED jobs
        ELSE UNCHANGED <<jobs, callbacks>>
  /\ responses' = Tail(responses)
  /\ UNCHANGED <<evaluator, jobId, abortSignalBuffer, requests, core, call>>

\* evaluator.onmessage
evaluatorOnmessage ==
  /\ responses # <<>>
  /\ LET data == Head(responses)
     IN IF data.id \in DOMAIN jobs
        THEN /\ jobs' = [id \in DOMAIN jobs \ {data.id} |-> jobs[id]]
             /\ callbacks' = Append(callbacks, [id |-> data.id, status |-> data.status,
                                                output |-> data.output])
        ELSE UNCHANGED <<jobs, callbacks>>
  /\ responses' = Tail(responses)
  /\ UNCHANGED <<evaluator, jobId, abortSignalBuffer, requests, core, call>>

----------------------------------------------------------------------------
(* Core *)

\* postMessage({id: id, ...response}) at the end of onmessage
postMessage(response) ==
  /\ responses' = Append(responses, [worker |-> evaluator, id |-> job.id,
                                     status |-> response.status,
                                     output |-> response.output])
  /\ job' = [idle EXCEPT !.id = job.id, !.action = job.action]

\* genericEval has returned result: evaluateFirstForm answers, the loops of
\* initialize and evaluateAllForms go on to read
returned(result) ==
  IF job.action = EVALUATE_FIRST_FORM THEN postMessage(success(output(result)))
  ELSE /\ job' = [job EXCEPT !.pc = "read", !.lastResult = result, !.bounce = NULL, !.n = 0]
       /\ UNCHANGED responses

\* onmessage taking the request sent last
onmessageLastRequest ==
  /\ job.pc = "idle"
  /\ requests # <<>>
  /\ LET request == requests[Len(requests)]
         begin(text, files) == [idle EXCEPT !.pc = "read", !.id = request.id,
                                            !.action = request.action, !.text = text,
                                            !.files = files]
         evlFiles == request.input.evlFiles
     IN IF request.action = INITIALIZE
        THEN /\ abortSignalArray' = TRUE
             /\ selectedEvaluator' = request.input.selectedEvaluator
             /\ st' = initializeFeatureList(<<request.input.selectedEvaluator>>, st)
             /\ job' = IF evlFiles = <<>> THEN begin(<<>>, <<>>)
                       ELSE begin(Head(evlFiles), Tail(evlFiles))
             /\ UNCHANGED abortSignalBuffer
        ELSE /\ abortSignalBuffer' = IF abortSignalArray THEN 0 ELSE abortSignalBuffer
             /\ job' = begin(request.input, <<>>)
             /\ UNCHANGED <<abortSignalArray, selectedEvaluator, st>>
  /\ requests' = SubSeq(requests, 1, Len(requests) - 1)
  /\ UNCHANGED <<host, responses, call>>

\* onmessage up to the first read of the handler it calls
onmessage ==
  /\ job.pc = "idle"
  /\ requests # <<>>
  /\ LET request == Head(requests)
         begin(text, files) == [idle EXCEPT !.pc = "read", !.id = request.id,
                                            !.action = request.action, !.text = text,
                                            !.files = files]
         evlFiles == request.input.evlFiles
     IN IF request.action = INITIALIZE
        THEN /\ abortSignalArray' = TRUE
             /\ selectedEvaluator' = request.input.selectedEvaluator
             /\ st' = initializeFeatureList(<<request.input.selectedEvaluator>>, st)
             /\ job' = IF evlFiles = <<>> THEN begin(<<>>, <<>>)
                       ELSE begin(Head(evlFiles), Tail(evlFiles))
             /\ UNCHANGED abortSignalBuffer
        ELSE /\ abortSignalBuffer' = IF abortSignalArray THEN 0 ELSE abortSignalBuffer
             /\ job' = begin(request.input, <<>>)
             /\ UNCHANGED <<abortSignalArray, selectedEvaluator, st>>
  /\ requests' = Tail(requests)
  /\ UNCHANGED <<host, responses, call>>

\* read(tokenizer) and the call of genericEval that follows: the whole
\* evaluation under the recursive evaluators, the steps before the loop under
\* the trampolines.  The evaluations that the callback makes are part of
\* read(tokenizer); one that does not end does not let the step end.
readAndEval ==
  /\ job.pc = "read"
  /\ LET tokenizer == [Tokenizer(job.text, job.action # EVALUATE_FIRST_FORM,
                                  selectedEvaluator, aborting, st)
                         EXCEPT !.savedCodeUnits = job.savedCodeUnits,
                                !.lastResult = job.lastResult]
         reading(tk) == [job EXCEPT !.text = tk.text,
                                    !.savedCodeUnits = tk.savedCodeUnits,
                                    !.lastResult = tk.lastResult]
         loop(tk, form, st1) ==
           /\ job' = [reading(tk) EXCEPT !.pc = "loop", !.n = 0,
                                         !.bounce = EvalReq(form, nullDefiniteEnv)]
           /\ st' = st1
           /\ UNCHANGED responses
         \* trampolineppEval up to its loop; a macro expansion that does not
         \* end does not let the step end
         preprocess(tk, preprocessed) ==
           IF preprocessed.ok
           THEN loop(tk, preprocessed.v,
                     [preprocessed.st EXCEPT !.stack = <<trampolineppEndCont>>])
           ELSE /\ preprocessed.v # "Diverges"
                /\ postMessage(abortedOrError(preprocessed.v))
                /\ st' = preprocessed.st
         eval(tk, result) ==
           /\ st' = result.st
           /\ IF ~result.ok THEN postMessage(abortedOrError(result.v))
              ELSE IF job.action = EVALUATE_FIRST_FORM
              THEN postMessage(success(output(result.v)))
              ELSE /\ job' = [reading(tk) EXCEPT !.lastResult = result.v]
                   /\ UNCHANGED responses
         handle(object) ==
           IF ~object.ok
           THEN /\ object.v # "Diverges"
                /\ st' = object.st
                /\ IF /\ job.action = EVALUATE_FIRST_FORM
                      /\ object.v \in {"TruncatedToken", "UnexpectedEndOfInput"}
                   THEN postMessage(foundNoForm)
                   ELSE postMessage(abortedOrError(object.v))
           ELSE IF object.v = NULL
           THEN /\ st' = object.tokenizer.st
                /\ IF job.action = EVALUATE_FIRST_FORM THEN postMessage(foundNoForm)
                   ELSE IF job.files # <<>>
                   THEN /\ job' = [job EXCEPT !.text = Head(job.files),
                                              !.files = Tail(job.files),
                                              !.savedCodeUnits = <<>>,
                                              !.lastResult = object.tokenizer.lastResult]
                        /\ UNCHANGED responses
                   ELSE postMessage(success(output(object.tokenizer.lastResult)))
           ELSE IF selectedEvaluator = "trampoline"
           THEN loop(object.tokenizer, object.v,
                     [object.tokenizer.st EXCEPT !.stack = <<trampolineEndCont>>])
           ELSE IF selectedEvaluator = "trampolinepp"
           THEN \E preprocessed \in
                     {funcall("trampolineppPreprocessForm",
                              <<object.v, nullDefiniteEnv, object.tokenizer.st,
                                aborting, 1>>)} :
                  preprocess(object.tokenizer, preprocessed)
           ELSE \E result \in
                     {funcall("genericEval", <<selectedEvaluator, object.v,
                                               object.tokenizer.st, aborting>>)} :
                  eval(object.tokenizer, result)
     IN \E object \in {funcall("read", <<tokenizer>>)} : handle(object)
  /\ UNCHANGED <<host, abortSignalBuffer, requests, abortSignalArray, selectedEvaluator, call>>

\* one iteration of the loop of trampolineEval or trampolineppEval.  Past
\* MaxBounces iterations the loop is followed no further, except for the
\* iteration that finds the abort byte set.
bounceStep ==
  /\ job.pc = "loop"
  /\ (job.n < MaxBounces \/ aborting)
  /\ LET iteration(b) ==
           /\ st' = b.st
           /\ IF b.state = "bounce"
              THEN /\ job' = [job EXCEPT !.bounce = b.v, !.n = @ + 1]
                   /\ UNCHANGED responses
              ELSE IF b.state = "return" THEN returned(b.v)
              ELSE postMessage(abortedOrError(b.v))
     IN iteration(funcall(IF selectedEvaluator = "trampoline" THEN "trampolineBounce"
                          ELSE "trampolineppBounce", <<job.bounce, st, aborting>>))
  /\ UNCHANGED <<host, abortSignalBuffer, requests, abortSignalArray, selectedEvaluator, call>>

----------------------------------------------------------------------------
(***************************************************************************)
(* Texts                                                                   *)
(***************************************************************************)
\* ((_flambda (m) (m 1)) (_mlambda (x) (quote (quote a)))): m is bound to a
\* macro when the call (m 1) is evaluated
TextLocalMacro ==
  <<"(", "(", "_", "flambda", " ", "(", "m", ")", " ", "(", "m", " ", "1",
    ")", ")", " ", "(", "_", "mlambda", " ", "(", "x", ")", " ", "(",
    "quote", " ", "(", "quote", " ", "a", ")", ")", ")", ")">>

\* (_catch-errors (car 1))
TextCatchTypeError ==
  <<"(", "_", "catch", "-", "errors", " ", "(", "car", " ", "1", ")", ")">>

\* (_catch-errors ()): the try form is the empty list
TextCatchEmptyForm ==
  <<"(", "_", "catch", "-", "errors", " ", "(", ")", ")">>

\* (_catch-errors (quote)): the try form is malformed
TextCatchMalformed ==
  <<"(", "_", "catch", "-", "errors", " ", "(", "quote", ")", ")">>

\* (_catch-errors 1)
TextCatchNoError ==
  <<"(", "_", "catch", "-", "errors", " ", "1", ")">>

\* (_catch-errors (_for-each (fref car) (quote ())))
TextCatchForEach ==
  <<"(", "_", "catch", "-", "errors", " ", "(", "_", "for", "-", "each", " ",
    "(", "fref", " ", "car", ")", " ", "(", "quote", " ", "(", ")", ")", ")",
    ")">>

\* ((_flambda (f) (f (fref f))) (_flambda (f) (f (fref f)))): a loop of tail
\* calls of a closure of lexical scope
TextLexicalLoop ==
  <<"(", "(", "_", "flambda", " ", "(", "f", ")", " ", "(", "f", " ", "(",
    "fref", " ", "f", ")", ")", ")", " ", "(", "_", "flambda", " ", "(", "f",
    ")", " ", "(", "f", " ", "(", "fref", " ", "f", ")", ")", ")", ")">>

\* ((_dlambda (x) ((dref x) (dref x))) (_dlambda (x) ((dref x) (dref x)))): a
\* loop of tail calls of a closure of dynamic scope
TextDynamicLoop ==
  <<"(", "(", "_", "dlambda", " ", "(", "x", ")", " ", "(", "(", "dref", " ",
    "x", ")", " ", "(", "dref", " ", "x", ")", ")", ")", " ", "(", "_",
    "dlambda", " ", "(", "x", ")", " ", "(", "(", "dref", " ", "x", ")", " ",
    "(", "dref", " ", "x", ")", ")", ")", ")">>

\* (_catch-errors ((_flambda (f) (f (fref f))) (_flambda (f) (f (fref f)))))
TextCatchLoop ==
  <<"(", "_", "catch", "-", "errors", " ", "(", "(", "_", "flambda", " ",
    "(", "f", ")", " ", "(", "f", " ", "(", "fref", " ", "f", ")", ")", ")",
    " ", "(", "_", "flambda", " ", "(", "f", ")", " ", "(", "f", " ", "(",
    "fref", " ", "f", ")", ")", ")", ")", ")">>

\* (vset! a 1) (cons (vset! b 2) (vset! c 3))
TextAssignments ==
  <<"(", "vset", "!", " ", "a", " ", "1", ")", " ", "(", "cons", " ", "(",
    "vset", "!", " ", "b", " ", "2", ")", " ", "(", "vset", "!", " ", "c",
    " ", "3", ")", ")">>

\* the empty text
TextEmpty ==
  <<>>

\* a space and a line feed
TextWhitespace ==
  <<" ", "\n">>

\* "a: a string without its closing quotation mark
TextTruncatedString ==
  <<"\"", "a">>

\* "a\: a string that ends after a backslash
TextTruncatedStringEscape ==
  <<"\"", "a", "\\">>

\* #1: a hash construct that ends after its argument
TextTruncatedHash ==
  <<"#", "1">>

\* #"a: a character without its closing quotation mark
TextTruncatedCharacter ==
  <<"#", "\"", "a">>

\* a\U{4: a variable that ends inside an escape sequence
TextTruncatedEscape ==
  <<"a", "\\", "U", "{", "4">>

\* (vset! a 1: the example of the unclosed list
TextUnclosedList ==
  <<"(", "vset", "!", " ", "a", " ", "1">>

\* (a . b
TextUnclosedDottedList ==
  <<"(", "a", " ", ".", " ", "b">>

\* #(1 2
TextUnclosedVector ==
  <<"#", "(", "1", " ", "2">>

\* ': a quote and nothing to quote
TextUnclosedAbbreviation ==
  <<"'">>

\* #+plainrec: a read-time conditional without its object
TextUnclosedConditional ==
  <<"#", "+", "plainrec">>

\* <p>a (vset! a 1): an XML element without its end tag
TextUnclosedElement ==
  <<"<", "p", ">", "a", " ", "(", "vset", "!", " ", "a", " ", "1", ")">>

\* <p>a <b: an XML element that ends inside the start tag of another
TextTruncatedMarkup ==
  <<"<", "p", ">", "a", " ", "<", "b">>

\* <p>a </p: an XML element that ends inside its end tag
TextTruncatedEndTag ==
  <<"<", "p", ">", "a", " ", "<", "/", "p">>

\* (vset! a 1) (car 1) (vset! b 2)
TextErrorBetweenAssignments ==
  <<"(", "vset", "!", " ", "a", " ", "1", ")", " ", "(", "car", " ", "1",
    ")", " ", "(", "vset", "!", " ", "b", " ", "2", ")">>

\* (vset! a 1) ((_flambda (f) (f (fref f))) (_flambda (f) (f (fref f))))
\* (vset! b 2)
TextLoopBetweenAssignments ==
  <<"(", "vset", "!", " ", "a", " ", "1", ")", " ", "(", "(", "_", "flambda",
    " ", "(", "f", ")", " ", "(", "f", " ", "(", "fref", " ", "f", ")", ")",
    ")", " ", "(", "_", "flambda", " ", "(", "f", ")", " ", "(", "f", " ",
    "(", "fref", " ", "f", ")", ")", ")", ")", " ", "(", "vset", "!", " ",
    "b", " ", "2", ")">>

\* (progn (fset! m (_mlambda (x) (quote (quote a)))) (m (car 1))): when (m
\* (car 1)) is evaluated the function m is a macro; its operand signals an
\* error if it is evaluated, and the expansion is (quote a)
TextMacroCall ==
  <<"(", "progn", " ", "(", "fset", "!", " ", "m", " ", "(", "_", "mlambda",
    " ", "(", "x", ")", " ", "(", "quote", " ", "(", "quote", " ", "a", ")",
    ")", ")", ")", " ", "(", "m", " ", "(", "car", " ", "1", ")", ")", ")">>

\* ((_vlambda (y) (m)) (progn (fset! m (_mlambda () (quote y))) 2)): the
\* expansion is y, which the lexical environment of the call binds to 2 and
\* that of the macro does not bind
TextMacroCallInScope ==
  <<"(", "(", "_", "vlambda", " ", "(", "y", ")", " ", "(", "m", ")", ")",
    " ", "(", "progn", " ", "(", "fset", "!", " ", "m", " ", "(", "_",
    "mlambda", " ", "(", ")", " ", "(", "quote", " ", "y", ")", ")", ")",
    " ", "2", ")", ")">>

\* ((_dlambda (x) ((_vlambda () (dref x)))) 1): a function called from the
\* body of a dynamically-scoped call reads the binding of the call
TextDynamicVisible ==
  <<"(", "(", "_", "dlambda", " ", "(", "x", ")", " ", "(", "(", "_",
    "vlambda", " ", "(", ")", " ", "(", "dref", " ", "x", ")", ")", ")", ")",
    " ", "1", ")">>

\* (progn (dset! x 1) ((_dlambda (x) (dset! x 2)) 3) (dref x)): the body
\* assigns the binding of the call; the dref after the call reads the global
\* value 1
TextDynamicUnwound ==
  <<"(", "progn", " ", "(", "dset", "!", " ", "x", " ", "1", ")", " ", "(",
    "(", "_", "dlambda", " ", "(", "x", ")", " ", "(", "dset", "!", " ", "x",
    " ", "2", ")", ")", " ", "3", ")", " ", "(", "dref", " ", "x", ")", ")">>

\* (progn (dset! x 1) (_catch-errors ((_dlambda (x) (car 1)) 2)) (dref x)):
\* the body of the call ends with an error that is caught around the call
TextDynamicUnwoundByError ==
  <<"(", "progn", " ", "(", "dset", "!", " ", "x", " ", "1", ")", " ", "(",
    "_", "catch", "-", "errors", " ", "(", "(", "_", "dlambda", " ", "(",
    "x", ")", " ", "(", "car", " ", "1", ")", ")", " ", "2", ")", ")", " ",
    "(", "dref", " ", "x", ")", ")">>

\* ((_vlambda (x) (fset! g (_vlambda () x)) (vset! x 2)) 1) (g): the body
\* that created the closure g assigns x, then g reads x
TextClosureSeesCreator ==
  <<"(", "(", "_", "vlambda", " ", "(", "x", ")", " ", "(", "fset", "!", " ",
    "g", " ", "(", "_", "vlambda", " ", "(", ")", " ", "x", ")", ")", " ",
    "(", "vset", "!", " ", "x", " ", "2", ")", ")", " ", "1", ")", " ", "(",
    "g", ")">>

\* ((_vlambda (x) (fset! s (_vlambda () (vset! x 2))) (fset! g (_vlambda ()
\* x))) 1) (s) (g): the closure s assigns x, then the closure g over the same
\* frame reads x
TextClosureSeesClosure ==
  <<"(", "(", "_", "vlambda", " ", "(", "x", ")", " ", "(", "fset", "!", " ",
    "s", " ", "(", "_", "vlambda", " ", "(", ")", " ", "(", "vset", "!", " ",
    "x", " ", "2", ")", ")", ")", " ", "(", "fset", "!", " ", "g", " ", "(",
    "_", "vlambda", " ", "(", ")", " ", "x", ")", ")", ")", " ", "1", ")",
    " ", "(", "s", ")", " ", "(", "g", ")">>

\* (quote (#+plainrec a b))
TextIfFeature ==
  <<"(", "quote", " ", "(", "#", "+", "plainrec", " ", "a", " ", "b", ")",
    ")">>

\* (quote (#-plainrec a b))
TextUnlessFeature ==
  <<"(", "quote", " ", "(", "#", "-", "plainrec", " ", "a", " ", "b", ")",
    ")">>

\* (quote (#+(or cps plainrec) a b))
TextIfEitherFeature ==
  <<"(", "quote", " ", "(", "#", "+", "(", "or", " ", "cps", " ", "plainrec",
    ")", " ", "a", " ", "b", ")", ")">>

\* (quote (#-(and (not cps) (not oocps)) (a . b) c)): the conditionalized
\* object is a dotted list
TextUnlessNeitherFeature ==
  <<"(", "quote", " ", "(", "#", "-", "(", "and", " ", "(", "not", " ",
    "cps", ")", " ", "(", "not", " ", "oocps", ")", ")", " ", "(", "a", " ",
    ".", " ", "b", ")", " ", "c", ")", ")">>

\* (_for-each (_vlambda (x) x) (quote (1 2)))
TextForEachValue ==
  <<"(", "_", "for", "-", "each", " ", "(", "_", "vlambda", " ", "(", "x",
    ")", " ", "x", ")", " ", "(", "quote", " ", "(", "1", " ", "2", ")", ")",
    ")">>

\* (vset! a (quote ())) (_for-each (_vlambda (x) (vset! a (cons x a))) (quote
\* (1 2))) a: the function pushes each element on the list a
TextForEachOrder ==
  <<"(", "vset", "!", " ", "a", " ", "(", "quote", " ", "(", ")", ")", ")",
    " ", "(", "_", "for", "-", "each", " ", "(", "_", "vlambda", " ", "(",
    "x", ")", " ", "(", "vset", "!", " ", "a", " ", "(", "cons", " ", "x",
    " ", "a", ")", ")", ")", " ", "(", "quote", " ", "(", "1", " ", "2", ")",
    ")", ")", " ", "a">>

\* (vset! a 1) a: the variable a is read twice, and the second form is read
\* after the first is evaluated
TextInterned ==
  <<"(", "vset", "!", " ", "a", " ", "1", ")", " ", "a">>

\* (vset! a 2) \U{61}: the second form is the variable a written with an
\* escape sequence
TextInternedEscape ==
  <<"(", "vset", "!", " ", "a", " ", "2", ")", " ", "\\", "U", "{", "61",
    "}">>

\* (fset! a (_vlambda () (fref a))) (fref a)
TextInternedFunction ==
  <<"(", "fset", "!", " ", "a", " ", "(", "_", "vlambda", " ", "(", ")", " ",
    "(", "fref", " ", "a", ")", ")", ")", " ", "(", "fref", " ", "a", ")">>

\* ((_vlambda (x y) ((_flambda (x) ((_dlambda (z) (vset! y (x y))) 1))
\* (_vlambda (y) x))) 1 2): the function x shadows no value, the closure's
\* parameter y shadows the outer y, and the body of the _dlambda, which adds
\* no lexical frame, assigns the outer y
TextLexicalAddresses ==
  <<"(", "(", "_", "vlambda", " ", "(", "x", " ", "y", ")", " ", "(", "(",
    "_", "flambda", " ", "(", "x", ")", " ", "(", "(", "_", "dlambda", " ",
    "(", "z", ")", " ", "(", "vset", "!", " ", "y", " ", "(", "x", " ", "y",
    ")", ")", ")", " ", "1", ")", ")", " ", "(", "_", "vlambda", " ", "(",
    "y", ")", " ", "x", ")", ")", ")", " ", "1", " ", "2", ")">>

\* (vset! a 1) ((_vlambda (x) (vset! a (cons a x))) 2): a and cons have no
\* lexical binding
TextGlobalAddresses ==
  <<"(", "vset", "!", " ", "a", " ", "1", ")", " ", "(", "(", "_", "vlambda",
    " ", "(", "x", ")", " ", "(", "vset", "!", " ", "a", " ", "(", "cons",
    " ", "a", " ", "x", ")", ")", ")", " ", "2", ")">>

\* (fset! mlambda (_mlambda () (quote (_mlambda () x)))) ((_vlambda (x)
\* ((_flambda (m) (m)) (mlambda))) 1): the second form binds m, in the scope
\* of x, to a macro whose body is x
TextMacroLetCapture ==
  <<"(", "fset", "!", " ", "mlambda", " ", "(", "_", "mlambda", " ", "(",
    ")", " ", "(", "quote", " ", "(", "_", "mlambda", " ", "(", ")", " ",
    "x", ")", ")", ")", ")", " ", "(", "(", "_", "vlambda", " ", "(", "x",
    ")", " ", "(", "(", "_", "flambda", " ", "(", "m", ")", " ", "(", "m",
    ")", ")", " ", "(", "mlambda", ")", ")", ")", " ", "1", ")">>

\* (fset! mlambda (_mlambda () (quote (_mlambda (y) y)))) ((_vlambda (x)
\* ((_flambda (m) (m x)) (mlambda))) 1): the macro m expands to its operand,
\* and its body refers to its own parameter only
TextMacroLetClosed ==
  <<"(", "fset", "!", " ", "mlambda", " ", "(", "_", "mlambda", " ", "(",
    ")", " ", "(", "quote", " ", "(", "_", "mlambda", " ", "(", "y", ")",
    " ", "y", ")", ")", ")", ")", " ", "(", "(", "_", "vlambda", " ", "(",
    "x", ")", " ", "(", "(", "_", "flambda", " ", "(", "m", ")", " ", "(",
    "m", " ", "x", ")", ")", " ", "(", "mlambda", ")", ")", ")", " ", "1",
    ")">>

\* (_catch-errors (cons (_catch-errors (car 1)) (car 2))): an error is raised
\* inside two try forms, and another one inside the outer try form only
TextCatchNested ==
  <<"(", "_", "catch", "-", "errors", " ", "(", "cons", " ", "(", "_",
    "catch", "-", "errors", " ", "(", "car", " ", "1", ")", ")", " ", "(",
    "car", " ", "2", ")", ")", ")">>

\* ((_dlambda (x) (_catch-errors (car 1))) 2): the try form is the body of a
\* call of dynamic scope, whose Frame is on top of the control stack when
\* _catch-errors is entered
TextCatchInDynamicCall ==
  <<"(", "(", "_", "dlambda", " ", "(", "x", ")", " ", "(", "_", "catch",
    "-", "errors", " ", "(", "car", " ", "1", ")", ")", ")", " ", "2", ")">>

\* (cons (_catch-errors 1) (car 2)): the try form completes normally, and an
\* error is raised afterwards, while the call that contains the _catch-errors
\* form is still being evaluated
TextErrorAfterCatch ==
  <<"(", "cons", " ", "(", "_", "catch", "-", "errors", " ", "1", ")", " ",
    "(", "car", " ", "2", ")", ")">>

\* (_catch-errors (cons (_catch-errors 1) (car 2))): as TextErrorAfterCatch,
\* inside another try form
TextErrorAfterCatchInCatch ==
  <<"(", "_", "catch", "-", "errors", " ", "(", "cons", " ", "(", "_",
    "catch", "-", "errors", " ", "1", ")", " ", "(", "car", " ", "2", ")",
    ")", ")">>

\* (vset! a 1) <chapter>(vset! b 2)</chapter> (vset! c 3): the second
\* assignment is read directly inside an XML element
TextElementOrder ==
  <<"(", "vset", "!", " ", "a", " ", "1", ")", " ", "<", "chapter", ">", "(",
    "vset", "!", " ", "b", " ", "2", ")", "<", "/", "chapter", ">", " ", "(",
    "vset", "!", " ", "c", " ", "3", ")">>

\* (vset! a 1) <chapter>(car 1) (vset! b 2)</chapter> (vset! c 3): the first
\* object inside the element signals an error
TextElementError ==
  <<"(", "vset", "!", " ", "a", " ", "1", ")", " ", "<", "chapter", ">", "(",
    "car", " ", "1", ")", " ", "(", "vset", "!", " ", "b", " ", "2", ")",
    "<", "/", "chapter", ">", " ", "(", "vset", "!", " ", "c", " ", "3", ")">>

\* (vset! a <chapter>(vset! b 2)</chapter> 1): the element is inside a form,
\* which is fully read after the object inside the element
TextElementInList ==
  <<"(", "vset", "!", " ", "a", " ", "<", "chapter", ">", "(", "vset", "!",
    " ", "b", " ", "2", ")", "<", "/", "chapter", ">", " ", "1", ")">>

\* <chapter><section>(vset! a 1)</section>(vset! b 2)</chapter>: an element
\* directly inside an element; in chapter and section the text between the
\* tags is read as EVL
TextElementNested ==
  <<"<", "chapter", ">", "<", "section", ">", "(", "vset", "!", " ", "a",
    " ", "1", ")", "<", "/", "section", ">", "(", "vset", "!", " ", "b", " ",
    "2", ")", "<", "/", "chapter", ">">>

\* (vset! boot 1)
TextBoot ==
  <<"(", "vset", "!", " ", "boot", " ", "1", ")">>

\* (vset! a 1)
TextAssignment ==
  <<"(", "vset", "!", " ", "a", " ", "1", ")">>

CatchTexts == {TextCatchTypeError, TextCatchEmptyForm, TextCatchMalformed,
               TextCatchNoError, TextCatchForEach}
\* texts that raise an error inside two try forms, in the body of a call of
\* dynamic scope inside a try form, or in a try form inside such a body
UnwindTexts == {TextCatchNested, TextDynamicUnwoundByError, TextCatchInDynamicCall}
\* texts that raise an error after a try form has completed normally
CompletedTryTexts == {TextErrorAfterCatch, TextErrorAfterCatchInCatch}
\* texts with assignments read directly inside an XML element
ElementTexts == {TextElementOrder, TextElementError, TextElementInList, TextElementNested}
TailTexts == {TextLexicalLoop, TextDynamicLoop}
\* texts that end before a form is complete
TruncatedTexts ==
  {TextEmpty, TextWhitespace, TextTruncatedString, TextTruncatedStringEscape,
   TextTruncatedHash, TextTruncatedCharacter, TextTruncatedEscape, TextUnclosedList,
   TextUnclosedDottedList, TextUnclosedVector, TextUnclosedAbbreviation,
   TextUnclosedConditional, TextUnclosedElement, TextTruncatedMarkup,
   TextTruncatedEndTag}
\* texts with a form that completes abnormally between two assignments
AbnormalTexts == {TextErrorBetweenAssignments, TextLoopBetweenAssignments}
\* texts of one form with a call of the function m, which is a macro when the
\* call is evaluated
MacroTexts == {TextMacroCall, TextMacroCallInScope}
\* texts of one form whose value is 1 when the parameter bindings of a call of
\* a _dlambda closure are visible to dref and dset! during the body of the call
\* and never after it
DynamicTexts == {TextDynamicVisible, TextDynamicUnwound, TextDynamicUnwoundByError}
\* texts whose last form has the value 2 when a closure reads the frame it
\* was created in and not a copy of it
ClosureTexts == {TextClosureSeesCreator, TextClosureSeesClosure}
\* texts of one quoted list that starts with a read-time conditional
ConditionalTexts ==
  {TextIfFeature, TextUnlessFeature, TextIfEitherFeature, TextUnlessNeitherFeature}
\* texts that read a variable again after assigning it
InternedTexts == {TextInterned, TextInternedEscape, TextInternedFunction}
\* texts with references and assignments of lexical and global variables
AddressTexts == {TextLexicalAddresses, TextGlobalAddresses, TextClosureSeesCreator,
                 TextClosureSeesClosure}
\* texts that bind a macro with a _flambda form whose operand is a mlambda form
MacroLetTexts == {TextMacroLetClosed, TextMacroLetCapture}
\* texts with a _for-each form
ForEachTexts == {TextForEachValue, TextForEachOrder}
EvalTexts == CatchTexts \cup TailTexts \cup TruncatedTexts \cup AbnormalTexts
               \cup MacroTexts \cup DynamicTexts \cup ClosureTexts
               \cup ConditionalTexts \cup ForEachTexts \cup InternedTexts
               \cup AddressTexts \cup MacroLetTexts \cup UnwindTexts
               \cup CompletedTryTexts \cup ElementTexts
               \cup {TextLocalMacro, TextCatchLoop, TextAssignments}

\* what the IDE sends in the sessions of Spec
HostEvaluators == {"plainrec", "trampolinepp"}
HostFiles == {<<>>, <<TextBoot>>}
HostTexts == {TextEmpty, TextAssignment}

----------------------------------------------------------------------------
(***************************************************************************)
(* Spec: the sessions of the IDE, from the load of the page.               *)
(***************************************************************************)
Init ==
  /\ evaluator = 0
  /\ jobId = 0
  /\ jobs = <<>>
  /\ callbacks = <<>>
  /\ abortSignalBuffer = 0
  /\ requests = <<>>
  /\ responses = <<>>
  /\ abortSignalArray = Worker.abortSignalArray
  /\ selectedEvaluator = Worker.selectedEvaluator
  /\ st = Worker.st
  /\ job = Worker.job
  /\ call = noCall

Next ==
  \/ \E selected \in HostEvaluators, evlFiles \in HostFiles :
       createEvaluator(selected, evlFiles)
  \/ \E text \in HostTexts : evaluateFirstForm(text)
  \/ \E text \in HostTexts : evaluateAllForms(text)
  \/ abortEvaluation
  \/ evaluatorOnmessage
  \/ onmessage
  \/ readAndEval
  \/ bounceStep

Spec == Init /\ [][Next]_vars

(***************************************************************************)
(* SpecEval: one request to evaluate a text, sent to an evaluator that has *)
(* answered INITIALIZE (job 0); the user may abort the evaluation.         *)
(***************************************************************************)
InitEval ==
  \E selected \in Evaluators, text \in EvalTexts,
     action \in {EVALUATE_FIRST_FORM, EVALUATE_ALL_FORMS} :
    /\ evaluator = 1
    /\ jobId = 2
    /\ jobs = (1 :> [action |-> action, input |-> text])
    /\ callbacks = <<[id |-> 0, status |-> SUCCESS, output |-> <<"#v">>]>>
    /\ abortSignalBuffer = 0
    /\ requests = <<[id |-> 1, action |-> action, input |-> text]>>
    /\ responses = <<>>
    /\ abortSignalArray = TRUE
    /\ selectedEvaluator = selected
    /\ st = initializeFeatureList(<<selected>>, loadedCore)
    /\ job = [idle EXCEPT !.id = 0, !.action = INITIALIZE]
    /\ call = noCall

NextEval ==
  \/ abortEvaluation
  \/ evaluatorOnmessage
  \/ onmessage
  \/ readAndEval
  \/ bounceStep

SpecEval == InitEval /\ [][NextEval]_vars

(***************************************************************************)
(* SpecCalls: one call of a function of the core, examined on its own, in  *)
(* a store that holds three Frames in two chains (the next of the third is *)
(* the first or the second) and a control stack with two Frames.  The      *)
(* value of every binding differs from the value that the call assigns.    *)
(***************************************************************************)
varX == EVLVariable("x")
varY == EVLVariable("y")

\* the namespace and the variables of a Frame
FrameShapes ==
  {<<VAL_NS, <<varX>>>>, <<VAL_NS, <<varX, varY>>>>, <<FUN_NS, <<varX>>>>, <<FUN_NS, <<varY>>>>}

\* new Frame(namespace, variables, values, next) of a shape, at address a
shapedFrame(shape, a, next) ==
  Frame(shape[1], shape[2], [j \in 1..Len(shape[2]) |-> EVLNumber(10 * a + j)], next)

CallStores ==
  {[internVariable("y", internVariable("x", loadedCore)) EXCEPT
      !.frames = <<shapedFrame(s1, 1, nullDefiniteEnv), shapedFrame(s2, 2, 1),
                   shapedFrame(s3, 3, next)>>,
      !.stack = <<trampolineEndCont, shapedFrame(k1, 4, -1), sboocpsEndCont,
                  shapedFrame(k2, 5, -1)>>] :
     s1 \in FrameShapes, s2 \in FrameShapes, s3 \in FrameShapes,
     k1 \in FrameShapes, k2 \in FrameShapes, next \in {1, 2}}

InitCalls ==
  /\ evaluator = 0
  /\ jobId = 0
  /\ jobs = <<>>
  /\ callbacks = <<>>
  /\ abortSignalBuffer = 0
  /\ requests = <<>>
  /\ responses = <<>>
  /\ abortSignalArray = Worker.abortSignalArray
  /\ selectedEvaluator = Worker.selectedEvaluator
  /\ st \in CallStores
  /\ job = Worker.job
  /\ call = noCall

\* call.result of an outcome
outcome(result) == [ok |-> result.ok, v |-> result.v]

\* env.set(namespace, variable, value) for a lexical or dynamic environment
callFrameSet ==
  /\ call = noCall
  /\ \E env \in 0..Len(st.frames), namespace \in {VAL_NS, FUN_NS}, variable \in {varX, varY} :
       LET result == FrameSet(env, namespace, variable, EVLNumber(9), st)
       IN /\ call' = [f |-> "Frame.set", env |-> env, namespace |-> namespace,
                      variable |-> variable, before |-> st, result |-> outcome(result)]
          /\ st' = result.st
  /\ UNCHANGED <<host, abortSignalBuffer, requests, responses, abortSignalArray,
                 selectedEvaluator, job>>

\* kStack.set(namespace, variable, value) of the stack-based evaluators
callKStackSet ==
  /\ call = noCall
  /\ \E namespace \in {VAL_NS, FUN_NS}, variable \in {varX, varY} :
       LET result == kStackSet(namespace, variable, EVLNumber(9), st)
       IN /\ call' = [f |-> "kStack.set", env |-> -1, namespace |-> namespace,
                      variable |-> variable, before |-> st, result |-> outcome(result)]
          /\ st' = result.st
  /\ UNCHANGED <<host, abortSignalBuffer, requests, responses, abortSignalArray,
                 selectedEvaluator, job>>

NextCalls ==
  \/ callFrameSet
  \/ callKStackSet

SpecCalls == InitCalls /\ [][NextCalls]_vars

(***************************************************************************)
(* SpecPure: one call of a function of the core that reads no store,       *)
(* examined on its own: a pairing of parameters with arguments, or the     *)
(* test that the preprocessor of trampolinepp makes of a call.  The        *)
(* operands of a paired call are numbered objects followed by a spreadable *)
(* operand: a list of numbered objects that ends with the empty list or    *)
(* with a number, or a number.  call holds the values paired by the call   *)
(* with apply, and, when the spreadable operand is a proper list, by the   *)
(* call without apply of the same function on the operands followed by the *)
(* elements of the list.                                                   *)
(***************************************************************************)
numbered(n, from) == [i \in 1..n |-> EVLNumber(from + i)]

SpreadableOperands ==
  {arrayToList(numbered(n, MaxArgs), tail) : n \in 0..MaxSpread, tail \in {NIL, EVLNumber(0)}}

\* the arrays of arguments of the two calls
bothCalls(args, list) ==
  [apply |-> Append(args, list),
   direct |-> IF isProperList(list) THEN args \o listToArray(list) ELSE <<>>]

RECURSIVE held(_, _)
\* the list as the store holds it before the call: every cons with its
\* location.  A cons that a call makes with new EVLCons has no location yet.
held(list, at) ==
  IF list.t = "cons"
  THEN [t |-> "cons", car |-> list.car, cdr |-> held(list.cdr, at + 1), at |-> at]
  ELSE list

callPairPrimFunParameters ==
  /\ call = noCall
  /\ \E n \in 0..MaxArgs, list \in SpreadableOperands,
        arityMin \in 0..MaxParameters, arityMax \in -1..MaxParameters :
       LET args == bothCalls(numbered(n, 0), list) IN
       /\ arityMax = -1 \/ arityMin <= arityMax
       /\ call' = [f |-> "pairPrimFunParameters", list |-> list, rest |-> FALSE,
                   n |-> n, arity |-> <<arityMin, arityMax>>,
                   apply |-> pairPrimFunParameters(TRUE, args.apply, arityMin, arityMax),
                   direct |-> pairPrimFunParameters(FALSE, args.direct, arityMin, arityMax)]
  /\ UNCHANGED <<host, abortSignalBuffer, requests, responses, core>>

callPairClosureParameters ==
  /\ call = noCall
  /\ \E n \in 0..MaxArgs, list \in SpreadableOperands,
        nparameters \in 0..MaxParameters, rest \in BOOLEAN :
       LET args == bothCalls(numbered(n, 0), list)
           parameters == [i \in 1..nparameters |-> EVLVariable(<<"a", "b", "c", "d">>[i])]
       IN /\ rest => nparameters > 0
          /\ call' = [f |-> "pairClosureParameters", list |-> list, rest |-> rest,
                      n |-> n, arity |-> <<nparameters, nparameters>>,
                      apply |-> pairClosureParameters(TRUE, args.apply, parameters, rest),
                      direct |-> pairClosureParameters(FALSE, args.direct, parameters, rest),
                      plain |-> pairClosureParameters(FALSE, Append(numbered(n, 0), held(list, 1)),
                                                      parameters, rest)]
  /\ UNCHANGED <<host, abortSignalBuffer, requests, responses, core>>

\* the operators and the operands of the calls that isMacroLet is applied to
lambdaForm(name) ==
  arrayToList(<<EVLVariable(name), arrayToList(<<varX>>, NIL), varX>>, NIL)
CallOperators == {lambdaForm("_flambda"), lambdaForm("_vlambda"), varX}
CallOperands ==
  {lambdaForm("_mlambda"), lambdaForm("mlambda"), lambdaForm("_vlambda"), EVLNumber(1)}

\* isMacroLet(operator, operands) in trampolineppPreprocessCall
callIsMacroLet ==
  /\ call = noCall
  /\ \E operator \in CallOperators, n \in 0..MaxArgs :
       \E operands \in [1..n -> CallOperands] :
         call' = [f |-> "isMacroLet", operator |-> operator, operands |-> operands,
                  result |-> isMacroLet(operator, arrayToList(operands, NIL))]
  /\ UNCHANGED <<host, abortSignalBuffer, requests, responses, core>>

\* the texts that convertEVLToXML is applied to: at most MaxPieces of the
\* pieces a variable, a space, a line feed, the parentheses, the tags of an
\* element chapter and an empty element tag
ConvertPieces ==
  {<<"a">>, <<" ">>, <<"\n">>, <<"(">>, <<")">>, <<"<", "chapter", ">">>,
   <<"<", "/", "chapter", ">">>, <<"<", "b", "/", ">">>}
ConvertTexts ==
  LET RECURSIVE join(_)
      join(pieces) == IF pieces = <<>> THEN <<>> ELSE Head(pieces) \o join(Tail(pieces))
  IN {join(pieces) : pieces \in UNION {[1..n -> ConvertPieces] : n \in 0..MaxPieces}}

\* convertEVLToXML(text); the variables that the tokenizer interns are not
\* followed
callConvertEVLToXML ==
  /\ call = noCall
  /\ \E text \in ConvertTexts :
       call' = [f |-> "convertEVLToXML", text |-> text,
                response |-> funcall("convertEVLToXML", <<text, st>>)]
  /\ UNCHANGED <<host, abortSignalBuffer, requests, responses, core>>

\* the terms of the objects that are printed and read again
Atoms ==
  {[k |-> "void"], [k |-> "nil"]}
    \cup {[k |-> "boolean", boolean |-> b] : b \in BOOLEAN}
    \cup {[k |-> "number", number |-> n] : n \in {-1, 0, 2}}
    \cup {[k |-> "string", chars |-> chars] :
            chars \in {<<>>, <<"a">>, <<"a", "\"">>, <<"\\", "\n">>}}
    \cup {[k |-> "keyword", chars |-> chars] : chars \in {<<"a">>, <<"a", " ">>}}
    \cup {[k |-> "variable", chars |-> chars, id |-> 0] :
            chars \in {<<"a">>, <<"(", "a">>, <<"<">>, <<"\\">>}}
    \cup {[k |-> "variable", chars |-> <<"a">>, id |-> 1]}
RECURSIVE Terms(_)
\* the conses are numbered by the depth at which they are made
Terms(depth) ==
  IF depth = 0 THEN Atoms
  ELSE Terms(depth - 1)
         \cup {[k |-> "cons", car |-> car, cdr |-> cdr, id |-> depth] :
                 car \in {[k |-> "number", number |-> 2],
                          [k |-> "variable", chars |-> <<"a">>, id |-> 0],
                          [k |-> "nil"],
                          [k |-> "cons", car |-> [k |-> "nil"], cdr |-> [k |-> "nil"],
                           id |-> 0]},
                 cdr \in Terms(depth - 1)}

\* read(new Tokenizer(text)) on the text of object.toString(), and
\* object2.eql(object) for the object read
callReadPrinted ==
  /\ call = noCall
  /\ \E term \in Terms(MaxDepth) :
       LET readBack(object, text, object2) ==
             /\ call' = [f |-> "read", object |-> object, text |-> text,
                         result |-> [ok |-> object2.ok, v |-> object2.v],
                         eql |-> object2.ok /\ object2.v # NULL
                                 /\ eql(object2.v, object)]
             /\ st' = IF object2.ok THEN object2.tokenizer.st ELSE object2.st
       IN readBack(objectOf(term), toText(term),
                   funcall("read", <<Tokenizer(toText(term), FALSE, "null", FALSE, st)>>))
  /\ UNCHANGED <<host, abortSignalBuffer, requests, responses, abortSignalArray,
                 selectedEvaluator, job>>

NextPure ==
  \/ callPairPrimFunParameters
  \/ callPairClosureParameters
  \/ callIsMacroLet
  \/ callConvertEVLToXML
  \/ callReadPrinted

SpecPure == Init /\ [][NextPure]_vars

----------------------------------------------------------------------------
(***************************************************************************)
(* The command line: one run of the core inside Node on each command line  *)
(* of at most MaxArgv arguments.                                           *)
(***************************************************************************)
CommandLineArguments ==
  {"--plainrec", "-l", "-e", "--convert"} \cup DOMAIN Arguments

RECURSIVE readable(_, _)
\* the files that the command line reads exist and its forms are known:
\* what follows an operation is one of Arguments
readable(argv, n) ==
  \/ n >= Len(argv)
  \/ argv[n] \notin {"-l", "-e", "--convert"}
  \/ argv[n + 1] \in DOMAIN Arguments /\ readable(argv, n + 2)

CommandLines ==
  {argv \in UNION {[1..n -> CommandLineArguments] : n \in 0..MaxArgv} :
     readable(argv, IF argv # <<>> /\ argv[1] \in evaluatorOptions THEN 2 ELSE 1)}

callMain ==
  /\ call = noCall
  /\ \E argv \in CommandLines :
       LET ended(process) ==
             /\ call' = [f |-> "main", argv |-> argv, console |-> process.console,
                         statuses |-> process.statuses,
                         operations |-> process.operations,
                         exitCode |-> process.exitCode]
             /\ selectedEvaluator' = process.selectedEvaluator
             /\ st' = process.st
       IN ended(funcall("main", <<argv, st>>))
  /\ UNCHANGED <<host, abortSignalBuffer, requests, responses, abortSignalArray, job>>

NextMain == callMain

SpecMain == Init /\ [][NextMain]_vars

----------------------------------------------------------------------------
(***************************************************************************)
(* Properties.  A response is in flight from the postMessage of the core   *)
(* to the evaluator.onmessage of the host; until then jobs holds its       *)
(* request.                                                                *)
(***************************************************************************)
Trampolines == {"trampoline", "trampolinepp"}

\* the core has just posted a response of the given status
posts(status) ==
  /\ job'.pc = "idle"
  /\ responses' = Append(responses, responses'[Len(responses')])
  /\ responses'[Len(responses')].status = status

\* a response of the given status to a request for the given text is in flight
answered(text, status) ==
  \E i \in DOMAIN responses :
    /\ responses[i].status = status
    /\ responses[i].id \in DOMAIN jobs
    /\ jobs[responses[i].id].input = text

\* the control stack holds the error handler of a _catch-errors form
handling == \E i \in DOMAIN st.stack : st.stack[i].t = "ErrorHandler"

RECURSIVE mentions(_, _)
\* the variable of the given name occurs in the object
mentions(object, name) ==
  IF object.t = "variable" THEN object.name = name
  ELSE IF object.t = "cons" THEN mentions(object.car, name) \/ mentions(object.cdr, name)
  ELSE FALSE

\* C1: a form that terminates under the six evaluators, all started from the
\* global state of the evaluator that answered, has the same primary value
\* under all of them: the value printed in the response to a text of one form
\* is the value that every evaluator computes.  The forms that use _for-each,
\* which plainrec and the trampolines do not implement, are left aside.
C1_EqualPrimaryValues ==
  \A i \in DOMAIN responses :
    LET r == responses[i]
        text == jobs[r.id].input
        object == funcall("read", <<Tokenizer(text, FALSE, selectedEvaluator, FALSE,
                                             initializeFeatureList(<<selectedEvaluator>>,
                                                                   loadedCore))>>)
        form == object.v
        st0 == object.tokenizer.st
        value(e) == funcall("genericEval", <<e, form, st0, FALSE>>)
    IN (/\ r.id \in DOMAIN jobs
        /\ r.status = SUCCESS
        /\ object.tokenizer.text = <<>>
        /\ ~mentions(form, "_for-each")
        /\ \A e \in Evaluators : value(e).ok)
       => \A e \in Evaluators : r.output[1] = toString(primaryValue(value(e).v))

\* C2: under trampoline and trampolinepp, once the host has set the abort byte
\* the next iteration of the bounce loop ends the evaluation, and the response
\* has the status ABORTED.
C2_AbortEndsBounceLoop ==
  [][(job.pc = "loop" /\ aborting /\ job' # job) => posts(ABORTED)]_vars

\* an evaluation that does not end, under a trampoline, was aborted
C2_Witness ==
  /\ selectedEvaluator \in Trampolines
  /\ answered(TextLexicalLoop, ABORTED)

\* C3: under each of the six evaluators a step that evaluates a form while
\* the abort byte is 1 evaluates nothing and raises Aborted: the response has
\* the status ABORTED.
C3_EveryEvaluatorTestsAbortByte ==
  [][(/\ aborting
      /\ \/ job.pc = "loop"
         \/ job.pc = "read" /\ job.text # <<>> /\ selectedEvaluator \notin Trampolines
      /\ job' # job)
     => posts(ABORTED)]_vars

\* C4: Aborted raised while the try form of a _catch-errors form is evaluated
\* is not consumed by the handler: the evaluation does not continue and the
\* response has the status ABORTED.
C4_AbortedSkipsHandlers ==
  [][(job.pc = "loop" /\ handling /\ aborting /\ job' # job)
     => (posts(ABORTED) /\ st'.stack = st.stack)]_vars

\* the evaluation of a try form was aborted with its handler on the stack
C4_Witness ==
  /\ handling
  /\ job.pc = "idle"
  /\ answered(TextCatchLoop, ABORTED)

ErrorNames ==
  {"CannotHappen", "FormAnalyzerError", "EvaluatorError", "UnboundVariable",
   "TooFewArguments", "TooManyArguments", "MalformedSpreadableSequenceOfObjects",
   "Error", "RangeError", "TypeError"}

\* C5: under every evaluator (_catch-errors try) returns Void when try
\* completes and the name of the error, as a string, when try signals an
\* error: the only response that is not a success is ABORTED.
C5_CatchErrorsReturnsVoidOrName ==
  \A i \in DOMAIN responses :
    LET r == responses[i] IN
    (r.id \in DOMAIN jobs /\ jobs[r.id].input \in CatchTexts)
    => \/ r.status = ABORTED
       \/ /\ r.status = SUCCESS
          /\ r.output \in {<<"#v">>} \cup {<<"\"" \o name \o "\"">> : name \in ErrorNames}

\* C6 as stated: under trampoline and trampolinepp the control stack of a loop
\* of tail calls stays within a constant depth, whatever the number of the
\* iterations, for the closures of lexical and of dynamic scope alike.
C6_TailCallsKeepStackBounded ==
  (selectedEvaluator \in Trampolines /\ job.pc = "loop"
   /\ jobs[job.id].input \in TailTexts)
  => Len(st.stack) <= 3

\* C6: under trampoline and trampolinepp a tail call of a closure of lexical
\* scope adds no element to the control stack: the control stack of a loop of
\* such calls stays within a constant depth, whatever the number of the
\* iterations.
C6_LexicalTailCallsKeepStackBounded ==
  (selectedEvaluator \in Trampolines /\ job.pc = "loop"
   /\ jobs[job.id].input = TextLexicalLoop)
  => Len(st.stack) <= 3

\* the loop of lexical tail calls has run for half of the iterations allowed
C6_Witness ==
  /\ selectedEvaluator \in Trampolines
  /\ job.pc = "loop"
  /\ jobs[job.id].input = TextLexicalLoop
  /\ 2 * job.n >= MaxBounces

\* the assignments of TextAssignments, after that of initializeFeatureList
AssignmentsInOrder == <<"*features*", "a", "b", "c">>

\* C7: under every evaluator the forms of a text are evaluated in source order
\* and the operands of a call from left to right, the effects of one being
\* complete before the next begins: at any time the assignments made are the
\* first ones of the text, in the order of the text.
C7_EffectsInSourceOrder ==
  (job.pc # "idle" /\ job.id \in DOMAIN jobs /\ jobs[job.id].input = TextAssignments)
  => /\ Len(st.effects) <= Len(AssignmentsInOrder)
     /\ st.effects = SubSeq(AssignmentsInOrder, 1, Len(st.effects))

\* the three assignments of TextAssignments were made
C7_Witness ==
  /\ answered(TextAssignments, SUCCESS)
  /\ st.effects = AssignmentsInOrder

\* the invocations of the callback of the job id, in order
invocations(log, id) == SelectSeq(log, LAMBDA c : c.id = id)

\* C8: when the evaluator is created again, the callback of every job that is
\* pending is invoked once, with the status TERMINATED, and the job is pending
\* no more; no callback is ever invoked twice, so that no response of the
\* evaluator terminated completes such a job afterwards.
C8_PendingJobsTerminatedOnce ==
  [][/\ evaluator' # evaluator
        => \A id \in DOMAIN jobs :
             /\ id \notin DOMAIN jobs'
             /\ Len(invocations(callbacks, id)) = 0
             /\ Len(invocations(callbacks', id)) = 1
             /\ invocations(callbacks', id)[1].status = TERMINATED
     /\ \A id \in 0..jobId : Len(invocations(callbacks', id)) <= 1]_vars

\* a job was reported TERMINATED and the response to it of the evaluator
\* terminated was not lost
C8_Witness ==
  \E i \in DOMAIN callbacks, j \in DOMAIN responses :
    /\ callbacks[i].status = TERMINATED
    /\ responses[j].id = callbacks[i].id
    /\ responses[j].worker < evaluator

\* C9 as stated: at most one request was sent and has not received its
\* response.
C9_OneOutstandingRequest == Cardinality(DOMAIN jobs) <= 1

\* C9: several requests may be outstanding; they queue, and the core handles
\* them one at a time in the order in which the host sent them.
C9_RequestsHandledInOrder ==
  /\ \A i, j \in DOMAIN requests : i < j => requests[i].id < requests[j].id
  /\ \A i \in DOMAIN requests : job.id < requests[i].id
  /\ \A i \in DOMAIN responses :
       responses[i].worker = evaluator
       => /\ responses[i].id <= job.id
          /\ \A j \in DOMAIN responses :
               (i < j /\ responses[j].worker = evaluator)
               => responses[i].id < responses[j].id

\* the core handles a request while the host waits for that one and for two
\* that it sent later
C9_Witness ==
  /\ job.pc # "idle"
  /\ Len(requests) = 2
  /\ {job.id, requests[1].id, requests[2].id} \subseteq DOMAIN jobs

\* the variables that the reader interns when it reads the files, besides
\* those of a core just loaded
variablesOf(files) ==
  LET RECURSIVE readAll(_, _)
      \* the store after the reader has read the texts, interning their variables
      readAll(texts, tokenizer) ==
        LET object == funcall("read", <<tokenizer>>)
        IN IF object.ok /\ object.v # NULL THEN readAll(texts, object.tokenizer)
           ELSE IF texts = <<>> THEN tokenizer.st
           ELSE readAll(Tail(texts), Tokenizer(Head(texts), FALSE, "null", FALSE,
                                               tokenizer.st))
  IN DOMAIN readAll(files, Tokenizer(<<>>, FALSE, "null", FALSE, loadedCore)).variablePackage
       \ DOMAIN loadedCore.variablePackage

\* C10: once the core has handled INITIALIZE, the interned variables and their
\* global bindings are those of a core just loaded and those that INITIALIZE
\* makes (the name of the evaluator, *features*, the variables of the files it
\* loads): nothing remains of the requests sent before.
C10_InitializeResetsInternedData ==
  (job.action = INITIALIZE /\ job.pc = "idle" /\ job.id # -1)
  => \E evlFiles \in HostFiles :
       \A name \in DOMAIN st.variablePackage :
         \/ name \in {selectedEvaluator, "*features*"} \cup variablesOf(evlFiles)
         \/ /\ name \in DOMAIN loadedCore.variablePackage
            /\ st.variablePackage[name] = loadedCore.variablePackage[name]

\* INITIALIZE was handled after a request that assigned a global variable
C10_Witness ==
  /\ job.action = INITIALIZE /\ job.pc = "idle" /\ job.id = 2
  /\ \E i \in DOMAIN callbacks :
       callbacks[i] = [id |-> 1, status |-> SUCCESS, output |-> <<"1">>]

\* C11: the response to EVALUATE_FIRST_FORM for a text that is empty, that
\* holds only whitespace, or that ends inside a token or inside a list, a
\* vector, an abbreviation, a read-time conditional or an XML element, has
\* the status FOUND_NO_FORM, and no form of the text was evaluated: no
\* variable was assigned.
C11_TruncatedTextFoundNoForm ==
  \A i \in DOMAIN responses :
    LET r == responses[i] IN
    (/\ r.id \in DOMAIN jobs
     /\ jobs[r.id].action = EVALUATE_FIRST_FORM
     /\ jobs[r.id].input \in TruncatedTexts)
    => /\ r.status = FOUND_NO_FORM
       /\ st.effects = <<"*features*">>

\* C12: EVALUATE_ALL_FORMS evaluates the forms of a text in the order of the
\* text, and when the evaluation of a form completes abnormally the forms
\* after it are not evaluated and the response has the status ERROR, or
\* ABORTED for an abort: for a text whose second form does not complete
\* normally, no assignment but that of the first form is ever made and no
\* response has the status SUCCESS.
C12_AbnormalCompletionEndsEvaluateAllForms ==
  (/\ job.id \in DOMAIN jobs
   /\ jobs[job.id].action = EVALUATE_ALL_FORMS
   /\ jobs[job.id].input \in AbnormalTexts)
  => /\ st.effects \in {<<"*features*">>, <<"*features*", "a">>}
     /\ \A i \in DOMAIN responses :
          responses[i].id = job.id => responses[i].status \in {ERROR, ABORTED}

\* the second form signalled an error after the first was evaluated, and the
\* response has the status ERROR
C12_Witness ==
  /\ job.id \in DOMAIN jobs
  /\ jobs[job.id].action = EVALUATE_ALL_FORMS
  /\ jobs[job.id].input = TextErrorBetweenAssignments
  /\ st.effects = <<"*features*", "a">>
  /\ \E i \in DOMAIN responses :
       responses[i].id = job.id /\ responses[i].output = <<"EvaluatorError">>

\* C13: under every evaluator, a call whose callable is a closure flagged
\* macro passes the operands unevaluated and evaluates the expansion in the
\* lexical environment of the call: the evaluation of the text of
\* TextMacroCall, if it is not aborted, succeeds with the value a of the
\* expansion (quote a), its operand (car 1) never being evaluated, and that
\* of TextMacroCallInScope with the value 2 of y in the environment of the
\* call.
C13_MacroCallExpandsThenEvaluates ==
  \A i \in DOMAIN responses :
    LET r == responses[i] IN
    (/\ r.id \in DOMAIN jobs
     /\ jobs[r.id].action = EVALUATE_ALL_FORMS
     /\ jobs[r.id].input \in MacroTexts
     /\ r.status # ABORTED)
    => /\ r.status = SUCCESS
       /\ r.output = IF jobs[r.id].input = TextMacroCall THEN <<"a">> ELSE <<"2">>

\* C14: under every evaluator the parameter bindings of a call of a _dlambda
\* closure are visible to dref and dset! while the body of the call is
\* evaluated, functions called from it included, and to no dref or dset!
\* after the body has completed, normally or with an error caught by a
\* _catch-errors around the call: the evaluation of each text of
\* DynamicTexts, if it is not aborted, succeeds with the value 1.
C14_DynamicBindingsEndWithBody ==
  \A i \in DOMAIN responses :
    LET r == responses[i] IN
    (/\ r.id \in DOMAIN jobs
     /\ jobs[r.id].action = EVALUATE_ALL_FORMS
     /\ jobs[r.id].input \in DynamicTexts
     /\ r.status # ABORTED)
    => /\ r.status = SUCCESS
       /\ r.output = <<"1">>

\* an evaluator that keeps the dynamic bindings on its control stack has
\* answered for the text whose call ends with a caught error
C14_Witness ==
  /\ selectedEvaluator = "trampoline"
  /\ \E i \in DOMAIN responses :
       /\ responses[i].id \in DOMAIN jobs
       /\ jobs[responses[i].id].action = EVALUATE_ALL_FORMS
       /\ jobs[responses[i].id].input = TextDynamicUnwoundByError
       /\ responses[i].output = <<"1">>

\* the bindings of Frames in the heap, in the control stack, and the global
\* cells whose value differs between two stores
changedFrames(s, t) ==
  {<<a, j>> \in (DOMAIN s.frames) \X (1..2) :
     j <= Len(s.frames[a].values) /\ s.frames[a].values[j] # t.frames[a].values[j]}
changedStack(s, t) ==
  {<<i, j>> \in (DOMAIN s.stack) \X (1..2) :
     /\ s.stack[i].t = "Frame"
     /\ j <= Len(s.stack[i].values)
     /\ s.stack[i].values[j] # t.stack[i].values[j]}
changedCells(s, t) ==
  {<<name, namespace>> \in (DOMAIN s.variablePackage) \X {VAL_NS, FUN_NS} :
     IF namespace = VAL_NS
     THEN s.variablePackage[name].value # t.variablePackage[name].value
     ELSE s.variablePackage[name].function # t.variablePackage[name].function}

\* the two stores hold the same Frames, bindings and cells, values apart
sameLocations(s, t) ==
  /\ DOMAIN s.frames = DOMAIN t.frames
  /\ \A a \in DOMAIN s.frames : [s.frames[a] EXCEPT !.values = <<>>] = [t.frames[a] EXCEPT !.values = <<>>]
  /\ DOMAIN s.stack = DOMAIN t.stack
  /\ \A i \in DOMAIN s.stack :
       IF s.stack[i].t = "Frame"
       THEN [s.stack[i] EXCEPT !.values = <<>>] = [t.stack[i] EXCEPT !.values = <<>>]
       ELSE s.stack[i] = t.stack[i]
  /\ DOMAIN s.variablePackage = DOMAIN t.variablePackage

RECURSIVE chain(_, _)
\* the addresses of the Frames of an environment, innermost first
chain(env, s) == IF env = nullDefiniteEnv THEN <<>> ELSE <<env>> \o chain(s.frames[env].next, s)

\* the frame binds the variable in the namespace, at index j
bindsAt(frame, namespace, variable, j) ==
  frame.namespace = namespace /\ j \in DOMAIN frame.variables /\ frame.variables[j] = variable

C16_ClosuresShareFrames ==
  \A i \in DOMAIN responses :
    LET r == responses[i] IN
    (/\ r.id \in DOMAIN jobs
     /\ jobs[r.id].action = EVALUATE_ALL_FORMS
     /\ jobs[r.id].input \in ClosureTexts
     /\ r.status # ABORTED)
    => /\ r.status = SUCCESS
       /\ r.output = <<"2">>

\* trampolinepp, which assigns through indices computed by the preprocessor,
\* has answered for the text with two closures over one frame
C16_Witness ==
  /\ selectedEvaluator = "trampolinepp"
  /\ \E i \in DOMAIN responses :
       /\ responses[i].id \in DOMAIN jobs
       /\ jobs[responses[i].id].action = EVALUATE_ALL_FORMS
       /\ jobs[responses[i].id].input = TextClosureSeesClosure
       /\ responses[i].output = <<"2">>

Pairings == {"pairPrimFunParameters", "pairClosureParameters"}

\* C17: for every function (primitive, closure with or without a rest
\* parameter), arguments a1..ak and proper list L, the call with apply on
\* a1..ak and L pairs the parameters with the same values, or signals the
\* same error, as the call without apply on a1..ak followed by the elements
\* of L.
C17_ApplyPairsAsDirectCall ==
  (call.f \in Pairings /\ isProperList(call.list)) => call.apply = call.direct

\* a closure with two parameters and a rest parameter was applied to one
\* argument and a list of three elements: the rest parameter is paired with
\* the list of the last two elements
C17_Witness ==
  /\ call.f = "pairClosureParameters"
  /\ call.rest
  /\ call.arity[1] = 3
  /\ call.n = 1
  /\ call.list = arrayToList(numbered(3, MaxArgs), NIL)
  /\ call.apply = Ok(<<EVLNumber(1), EVLNumber(MaxArgs + 1),
                       arrayToList(<<EVLNumber(MaxArgs + 2), EVLNumber(MaxArgs + 3)>>, NIL)>>)
  /\ call.direct = call.apply

\* C18: an apply whose final operand is not a proper list (a value that is
\* not a list, or a chain of conses that the empty list does not end)
\* signals MalformedSpreadableSequenceOfObjects, for primitive functions
\* and for closures with and without a rest parameter.
C18_ImproperOperandIsMalformed ==
  (call.f \in Pairings /\ ~isProperList(call.list))
  => call.apply = Err("MalformedSpreadableSequenceOfObjects")

\* the form is a list whose first element is the variable
headedBy(form, name) == form.t = "cons" /\ form.car = EVLVariable(name)

\* C19: the preprocessor of trampolinepp treats a call as a scope-local
\* macro binding exactly when the head of the call is a _flambda form and
\* every operand is a _mlambda form.
C19_MacroLetIffMlambdaOperands ==
  call.f = "isMacroLet" =>
    (call.result <=> /\ headedBy(call.operator, "_flambda")
                     /\ \A i \in DOMAIN call.operands : headedBy(call.operands[i], "_mlambda"))

\* the read-time conditionals of ConditionalTexts: the text, the evaluators
\* whose feature list gives the feature expression the polarity of the
\* conditional, and the value of the text when the conditionalized object
\* is kept and when it is skipped
ConditionalCases ==
  {[text |-> TextIfFeature, keeps |-> {"plainrec"}, kept |-> "(a b)", skipped |-> "(b)"],
   [text |-> TextUnlessFeature, keeps |-> Evaluators \ {"plainrec"},
    kept |-> "(a b)", skipped |-> "(b)"],
   [text |-> TextIfEitherFeature, keeps |-> {"cps", "plainrec"},
    kept |-> "(a b)", skipped |-> "(b)"],
   [text |-> TextUnlessNeitherFeature, keeps |-> {"cps", "oocps"},
    kept |-> "((a . b) c)", skipped |-> "(c)"]}

\* C20: reading #+expr obj or #-expr obj consumes expr and obj; obj is kept
\* iff the truth value of the feature expression (not, and, or over the
\* membership of symbols in *features*, which holds the name of the selected
\* evaluator) equals the polarity of the conditional, and otherwise reading
\* continues with what follows obj.
C20_ConditionalConsumesBoth ==
  \A i \in DOMAIN responses :
    LET r == responses[i] IN
    (/\ r.id \in DOMAIN jobs
     /\ jobs[r.id].action = EVALUATE_ALL_FORMS
     /\ jobs[r.id].input \in ConditionalTexts
     /\ r.status # ABORTED)
    => \E case \in ConditionalCases :
         /\ case.text = jobs[r.id].input
         /\ r.status = SUCCESS
         /\ r.output = IF selectedEvaluator \in case.keeps
                       THEN <<case.kept>> ELSE <<case.skipped>>

\* under oocps the dotted list after #-(and (not cps) (not oocps)) was kept
C20_Witness ==
  /\ selectedEvaluator = "oocps"
  /\ \E i \in DOMAIN responses :
       /\ responses[i].id \in DOMAIN jobs
       /\ jobs[responses[i].id].action = EVALUATE_ALL_FORMS
       /\ jobs[responses[i].id].input = TextUnlessNeitherFeature
       /\ responses[i].output = <<"((a . b) c)">>

\* C21: a _for-each form signals the error of a form that is not implemented
\* under plainrec, trampoline and trampolinepp; under cps, oocps and sboocps
\* it calls the function on each element of the list in order, discards the
\* results and returns void.  For the texts of ForEachTexts: the first
\* three evaluators answer ERROR with an EvaluatorError, the function never
\* having been called; the other three answer #v for the form alone and the
\* list (2 1) of the elements pushed in order.
C21_ForEachImplementedByCPSOnly ==
  \A i \in DOMAIN responses :
    LET r == responses[i] IN
    (/\ r.id \in DOMAIN jobs
     /\ jobs[r.id].action = EVALUATE_ALL_FORMS
     /\ jobs[r.id].input \in ForEachTexts
     /\ r.status # ABORTED)
    => IF selectedEvaluator \in {"plainrec", "trampoline", "trampolinepp"}
       THEN /\ r.status = ERROR
            /\ r.output = <<"EvaluatorError">>
            /\ st.effects = IF jobs[r.id].input = TextForEachValue
                            THEN <<"*features*">> ELSE <<"*features*", "a">>
       ELSE /\ r.status = SUCCESS
            /\ r.output = IF jobs[r.id].input = TextForEachValue
                          THEN <<"#v">> ELSE <<"(2 1)">>
            /\ jobs[r.id].input = TextForEachOrder
                 => st.effects = <<"*features*", "a", "a", "a">>

\* cps has called the function on 1, then on 2
C21_Witness ==
  /\ selectedEvaluator = "cps"
  /\ st.effects = <<"*features*", "a", "a", "a">>
  /\ \E i \in DOMAIN responses :
       /\ responses[i].id \in DOMAIN jobs
       /\ jobs[responses[i].id].input = TextForEachOrder
       /\ responses[i].output = <<"(2 1)">>

\* C22: in convertEVLToXML, the whitespace before a token that is read at
\* top level (the context stack is empty: outside every XML element and
\* every parenthesized form) is copied to the output unchanged: what the
\* converter adds for it is the run of whitespace itself, without tags.
C22_TopLevelWhitespaceCopied ==
  call.f = "convertEVLToXML" =>
    \A i \in DOMAIN call.response.tokens :
      LET step == call.response.tokens[i] IN
      step.context = lastContext(<<>>) => step.added = concat(step.whitespace)

\* C23: the command line executes its operations -l, -e and --convert in
\* order; the first operation whose response is an error prints the message
\* of the error, no operation after it is executed, and the process exits
\* with an exit code that is not zero; when no operation ends in an error
\* the exit code is 0.
C23_FirstErrorEndsCommandLine ==
  call.f = "main" =>
    LET errors == {i \in DOMAIN call.statuses : call.statuses[i] = ERROR}
        printed == {i \in DOMAIN call.statuses : call.statuses[i] # FOUND_NO_FORM}
        first == IF call.argv # <<>> /\ call.argv[1] \in evaluatorOptions THEN 2 ELSE 1
    IN /\ Len(call.operations) = Len(call.statuses)
       /\ \A i \in DOMAIN call.operations : call.operations[i] = first + 2 * (i - 1)
       /\ errors # {} =>
            /\ errors = {Len(call.statuses)}
            /\ Len(call.console) = Cardinality(printed)
            /\ call.exitCode # 0
       /\ errors = {} => call.exitCode = 0

\* C24: within one lifetime of the core, the reads of one spelling of a
\* variable return the same variable: no step removes a variable from the
\* package of the interned variables, and a global value or function that
\* is assigned through one read of the variable is what a later read of
\* the same spelling, escape sequences included, refers to.
C24_InternedVariablesAreShared ==
  /\ [](\A i \in DOMAIN responses :
          LET r == responses[i] IN
          (/\ r.id \in DOMAIN jobs
           /\ jobs[r.id].action = EVALUATE_ALL_FORMS
           /\ jobs[r.id].input \in InternedTexts
           /\ r.status # ABORTED)
          => /\ r.status = SUCCESS
             /\ r.output = CASE jobs[r.id].input = TextInterned -> <<"1">>
                             [] jobs[r.id].input = TextInternedEscape -> <<"2">>
                             [] OTHER -> <<"#<closure>">>)
  /\ [][\A name \in DOMAIN st.variablePackage : name \in DOMAIN st'.variablePackage]_vars

\* the variable written \U{61} has the value assigned to a
C24_Witness ==
  /\ selectedEvaluator = "trampolinepp"
  /\ "a" \in DOMAIN st.variablePackage
  /\ st.variablePackage["a"].value = EVLNumber(2)
  /\ \E i \in DOMAIN responses :
       /\ responses[i].id \in DOMAIN jobs
       /\ jobs[responses[i].id].input = TextInternedEscape
       /\ responses[i].output = <<"2">>

RECURSIVE readAgain(_, _)
\* object2 is what reading the printed representation of object makes
readAgain(object2, object) ==
  CASE object.t = "cons" ->
         /\ object2.t = "cons"
         /\ ~eql(object2, object)
         /\ readAgain(object2.car, object.car)
         /\ readAgain(object2.cdr, object.cdr)
    [] object.t = "variable" /\ "id" \in DOMAIN object ->
         /\ object2.t = "variable"
         /\ object2 = EVLVariable(object.name)
         /\ ~eql(object2, object)
    [] OTHER -> eql(object2, object)

C26_LexicalAddressesResolve ==
  \A n \in DOMAIN st.accesses :
    LET a == st.accesses[n] IN
    /\ a.found = a.bound
    /\ a.c \in {"TrampolineppLRef", "TrampolineppLSet"} => a.found[1] \in DOMAIN st.frames
    /\ a.c \in {"TrampolineppGRef", "TrampolineppGSet"} => a.found = <<nullDefiniteEnv, 0>>

RECURSIVE refersBeyond(_, _)
\* a preprocessed form, or a list of preprocessed forms, has a
\* TrampolineppLRef or TrampolineppLSet whose frame depth reaches beyond the
\* depth frames that enclose it
refersBeyond(form, depth) ==
  IF form = NIL \/ form.t \notin {"cons", "form"} THEN FALSE
  ELSE IF form.t = "cons"
  THEN refersBeyond(form.car, depth) \/ refersBeyond(form.cdr, depth)
  ELSE CASE form.c = "TrampolineppLRef" -> form.i >= depth
         [] form.c = "TrampolineppLSet" ->
              form.i >= depth \/ refersBeyond(form.valueForm, depth)
         [] form.c \in {"TrampolineppGSet", "TrampolineppDSet"} ->
              refersBeyond(form.valueForm, depth)
         [] form.c = "TrampolineppProgn" -> refersBeyond(form.forms, depth)
         [] form.c = "TrampolineppIf" ->
              \/ refersBeyond(form.testForm, depth)
              \/ refersBeyond(form.thenForm, depth)
              \/ refersBeyond(form.elseForm, depth)
         [] form.c = "TrampolineppLambda" ->
              refersBeyond(form.forms, IF form.scope = LEX_SCOPE THEN depth + 1 ELSE depth)
         [] form.c = "TrampolineppForEach" ->
              refersBeyond(form.functionForm, depth) \/ refersBeyond(form.listForm, depth)
         [] form.c = "TrampolineppCatchErrors" -> refersBeyond(form.tryForm, depth)
         [] form.c = "TrampolineppCall" ->
              refersBeyond(form.operator, depth) \/ refersBeyond(form.operands, depth)
         [] OTHER -> FALSE

\* C27: under trampolinepp, a macro closure that a frame binds and whose
\* environment is the null environment has, in its preprocessed body, no
\* frame depth that reaches beyond the frame of its own call: it was
\* preprocessed in the null environment, not in the chain of the form that
\* binds it.
C27_MacroLetClosuresAreClosed ==
  selectedEvaluator = "trampolinepp" =>
    \A f \in DOMAIN st.frames :
      \A j \in DOMAIN st.frames[f].values :
        LET fn == st.frames[f].values[j] IN
        (/\ st.frames[f].namespace = FUN_NS
         /\ fn # NULL
         /\ fn.t = "closure"
         /\ fn.macro
         /\ fn.lenv = nullDefiniteEnv)
        => ~refersBeyond(fn.forms, 1)

\* what the try statement of an iteration of the loop of trampolineEval or
\* trampolineppEval evaluates, before the catch clause: the evaluation of the
\* form of an EvalReq, or the invocation of the continuation that was popped
raised(bounce, s) ==
  LET k == s.stack[topCont(s.stack)]
      popped == [s EXCEPT !.stack = SubSeq(@, 1, topCont(s.stack) - 1)]
  IN IF bounce.t = "EvalReq"
     THEN funcall(IF selectedEvaluator = "trampoline" THEN "trampolineEvalForm"
                  ELSE "trampolineppFormEval", <<bounce.form, bounce.lenv, s>>)
     ELSE IF k.c \in {"TrampolineEndCont", "TrampolineppEndCont"} THEN Return(bounce, popped)
     ELSE funcall(IF selectedEvaluator = "trampoline" THEN "trampolineInvoke"
                  ELSE "trampolineppInvoke", <<k, bounce, popped>>)

\* the indexes of the error handlers on a stack
handlers(stack) == {i \in DOMAIN stack : stack[i].t = "ErrorHandler"}

\* C28: under trampoline and trampolinepp, when an iteration of the loop
\* raises an error and an error handler is on the control stack, the stack
\* after the iteration is the stack at the error below the handler pushed
\* last, every element as it was, and the loop goes on with the name of the
\* error as the result to pass to the continuation on top of what is left;
\* when no error handler is on the stack the evaluation ends and the
\* response is the error.
C28_ErrorUnwindsToLastHandler ==
  [][(/\ selectedEvaluator \in {"trampoline", "trampolinepp"}
      /\ job.pc = "loop"
      /\ job' # job
      /\ ~aborting
      /\ ~raised(job.bounce, st).ok)
     => LET r == raised(job.bounce, st)
            stack == r.st.stack
        IN IF handlers(stack) # {}
           THEN LET h == CHOOSE i \in handlers(stack) : \A j \in handlers(stack) : j <= i
                IN /\ st'.stack = SubSeq(stack, 1, h - 1)
                   /\ job'.pc = "loop"
                   /\ job'.bounce = EVLString(r.v)
                   /\ topCont(st'.stack) > 0
                   /\ \A j \in (topCont(st'.stack) + 1)..(h - 1) : stack[j].t = "Frame"
           ELSE /\ job'.pc = "idle"
                /\ responses' = Append(responses,
                     [worker |-> evaluator, id |-> job.id, status |-> ERROR,
                      output |-> <<r.v>>])]_vars

\* the error of (car 1) has been caught by the inner handler of
\* (_catch-errors (cons (_catch-errors (car 1)) (car 2))): the outer handler
\* and the continuations of the call of cons are on the stack
C28_Witness ==
  /\ selectedEvaluator \in {"trampoline", "trampolinepp"}
  /\ job.pc = "loop"
  /\ job.bounce.t = "string"
  /\ Cardinality(handlers(st.stack)) = 1
  /\ \E h \in handlers(st.stack) : topCont(st.stack) > h + 1

\* C29: under sboocps, when _catch-errors catches an error the control
\* stack is at least as long as the size recorded on entry; trim ends and
\* leaves a stack of exactly that size; and the continuation that is
\* invoked next, the topmost one of the stack that is left, is the
\* continuation that was the topmost one on entry.
C29_CatchTrimsToEntrySize ==
  /\ \A n \in DOMAIN st.catches :
       LET c == st.catches[n] IN
       /\ c.length >= c.kStackSize
       /\ c.trimmed = c.kStackSize
       /\ c.nextCont[1] > 0
       /\ c.nextCont = c.entryCont
  /\ \A i \in DOMAIN responses :
       selectedEvaluator = "sboocps" => responses[i].output # <<"Diverges">>

\* an error was caught under sboocps with more than the end continuation of
\* the try form above the size recorded on entry
C29_Witness ==
  /\ selectedEvaluator = "sboocps"
  /\ \E n \in DOMAIN st.catches :
       /\ st.catches[n].length > st.catches[n].kStackSize + 1
       /\ st.catches[n].kStackSize > 1

\* C30: in sboocps, trampoline and trampolinepp, whenever the next
\* continuation is popped or an error is unwound an end continuation is on
\* the control stack, and the popping loop stops at an element of the
\* stack: it never pops from the empty stack.
C30_EndContinuationOnStack ==
  /\ \A n \in DOMAIN st.pops : st.pops[n].ends >= 1 /\ st.pops[n].stop >= 1
  /\ \A i \in DOMAIN responses :
       selectedEvaluator \in {"sboocps", "trampoline", "trampolinepp"}
       => responses[i].output # <<"Diverges">>

\* a continuation has been popped and an error has been unwound down to a
\* handler marker that lies above the end continuation
C30_Witness ==
  /\ \E n \in DOMAIN st.pops : st.pops[n].method = "handleError" /\ st.pops[n].stop > 1
  /\ \E n \in DOMAIN st.pops : st.pops[n].method = "popCont" /\ st.pops[n].stop > 1

\* the try form of the handler at index h of the stack is being evaluated:
\* its continuation is the element pushed right after the handler
tryFormPending(stack, h) ==
  /\ h < Len(stack)
  /\ stack[h + 1].t = "Cont"
  /\ stack[h + 1].c \in {"TrampolineCatchErrorsTryFormCont",
                         "TrampolineppCatchErrorsTryFormCont"}

\* C31: under trampoline and trampolinepp an error handler catches only the
\* errors raised during the evaluation of its own try form.  Between two
\* iterations of the loop, a handler whose try form has completed is above
\* every continuation and no form is about to be evaluated, so that the next
\* iteration pops it; when an iteration raises an error, the handler that
\* consumes it still has the continuation of its try form on the stack; and
\* the error raised by (car 2) after the try form of (_catch-errors 1) has
\* completed normally is not caught by that handler: alone the form ends in
\* an error, and inside another try form the result is the name of the
\* error, caught by the outer handler.
C31_HandlerCatchesOwnTryFormOnly ==
  /\ []((selectedEvaluator \in {"trampoline", "trampolinepp"} /\ job.pc = "loop")
         => \A h \in handlers(st.stack) :
              \/ tryFormPending(st.stack, h)
              \/ (topCont(st.stack) < h /\ job.bounce.t # "EvalReq"))
  /\ [][(/\ selectedEvaluator \in {"trampoline", "trampolinepp"}
         /\ job.pc = "loop"
         /\ job' # job
         /\ ~aborting
         /\ ~raised(job.bounce, st).ok)
        => LET stack == raised(job.bounce, st).st.stack
           IN \A h \in handlers(stack) : tryFormPending(stack, h)]_vars
  /\ [](\A i \in DOMAIN responses :
          LET r == responses[i]
          IN (/\ selectedEvaluator \in {"trampoline", "trampolinepp"}
              /\ r.id \in DOMAIN jobs
              /\ jobs[r.id].action = EVALUATE_ALL_FORMS
              /\ jobs[r.id].input \in CompletedTryTexts
              /\ r.status # ABORTED)
             => IF jobs[r.id].input = TextErrorAfterCatch
                THEN r.status = ERROR
                ELSE r.status = SUCCESS /\ r.output = <<"\"EvaluatorError\"">>)

\* the request to evaluate (cons (_catch-errors 1) (car 2)) under a
\* trampoline evaluator has ended in an error
C31_Witness ==
  /\ selectedEvaluator \in {"trampoline", "trampolinepp"}
  /\ \E i \in DOMAIN responses :
       /\ responses[i].id \in DOMAIN jobs
       /\ jobs[responses[i].id].input = TextErrorAfterCatch
       /\ responses[i].status = ERROR

(***************************************************************************)
(* SpecAbort: one request to evaluate a text whose evaluation does not     *)
(* end, sent to a trampoline evaluator that has answered INITIALIZE; the   *)
(* user may abort at any time.  The worker runs each handler to its end    *)
(* and the two event loops deliver every message posted, whence the weak   *)
(* fairness of the steps of the core and of evaluator.onmessage; nothing   *)
(* makes the user abort.  The weak fairness of readAndEval is written out, *)
(* with job.pc = "read" for ENABLED <<readAndEval>>_vars: reading one of   *)
(* these texts and entering the loop always ends.                          *)
(***************************************************************************)
InitAbort ==
  \E selected \in Trampolines, text \in TailTexts,
     action \in {EVALUATE_FIRST_FORM, EVALUATE_ALL_FORMS} :
    /\ evaluator = 1
    /\ jobId = 2
    /\ jobs = (1 :> [action |-> action, input |-> text])
    /\ callbacks = <<[id |-> 0, status |-> SUCCESS, output |-> <<"#v">>]>>
    /\ abortSignalBuffer = 0
    /\ requests = <<[id |-> 1, action |-> action, input |-> text]>>
    /\ responses = <<>>
    /\ abortSignalArray = TRUE
    /\ selectedEvaluator = selected
    /\ st = initializeFeatureList(<<selected>>, loadedCore)
    /\ job = [idle EXCEPT !.id = 0, !.action = INITIALIZE]
    /\ call = noCall

NextAbort ==
  \/ abortEvaluation
  \/ evaluatorOnmessage
  \/ onmessage
  \/ readAndEval
  \/ bounceStep

SpecAbort ==
  /\ InitAbort
  /\ [][NextAbort]_vars
  /\ WF_vars(onmessage)
  /\ ([]<>(job.pc # "read") \/ []<><<readAndEval>>_vars)
  /\ WF_vars(bounceStep)
  /\ WF_vars(evaluatorOnmessage)

\* the callback of request 1 has been called with status ABORTED
abortedRequest ==
  \E i \in DOMAIN callbacks : callbacks[i].id = 1 /\ callbacks[i].status = ABORTED

InitStaleAbort ==
  /\ evaluator = 0
  /\ jobId = 0
  /\ jobs = <<>>
  /\ callbacks = <<>>
  /\ abortSignalBuffer = 1
  /\ requests = <<>>
  /\ responses = <<>>
  /\ abortSignalArray = Worker.abortSignalArray
  /\ selectedEvaluator = Worker.selectedEvaluator
  /\ st = Worker.st
  /\ job = Worker.job
  /\ call = noCall

NextStaleAbort ==
  \/ \E selected \in HostEvaluators, evlFiles \in HostFiles :
       createEvaluator(selected, evlFiles)
  \/ \E text \in HostTexts : evaluateFirstForm(text)
  \/ \E text \in HostTexts : evaluateAllForms(text)
  \/ evaluatorOnmessage
  \/ onmessage
  \/ readAndEval
  \/ bounceStep

SpecStaleAbort == InitStaleAbort /\ [][NextStaleAbort]_vars

\* C33: when the abort byte was set before a request is sent and is not set
\* again, the request does not end with status ABORTED: no response of the
\* core and no call of a callback has that status.
C33_StaleAbortEndsNoRequest ==
  /\ \A i \in DOMAIN responses : responses[i].status # ABORTED
  /\ \A i \in DOMAIN callbacks : callbacks[i].status # ABORTED

\* C34: a callback registered by sendRequest is called at most once: the
\* calls made so far are for different requests, and the request of a
\* callback that was called is no longer registered.  A call with a response
\* of the core is made with the response at the head of the queue, for the
\* request registered under the id of that response, and the core gives to
\* a response the id of the request that it took from its queue.  The ids
\* of requests are never reused: every request sent, registered or answered
\* has an id below jobId, a new request gets the id jobId, and jobId never
\* decreases, also when createEvaluator replaces the evaluator.
C34_CallbackCalledOnceForOwnRequest ==
  /\ [](/\ \A i, j \in DOMAIN callbacks : callbacks[i].id = callbacks[j].id => i = j
        /\ \A i \in DOMAIN callbacks :
             callbacks[i].id \notin DOMAIN jobs /\ callbacks[i].id < jobId
        /\ \A id \in DOMAIN jobs : id < jobId
        /\ \A i \in DOMAIN requests : requests[i].id < jobId
        /\ \A i \in DOMAIN responses : responses[i].id < jobId)
  /\ [][/\ jobId' >= jobId
        /\ \A id \in DOMAIN jobs' \ DOMAIN jobs : id = jobId /\ jobId' = jobId + 1
        /\ \A i \in DOMAIN requests' :
             (\A j \in DOMAIN requests : requests[j].id # requests'[i].id)
             => requests'[i].id = jobId /\ jobId' = jobId + 1
        /\ \A i \in DOMAIN callbacks' \ DOMAIN callbacks :
             callbacks'[i].status # TERMINATED
             => /\ responses # <<>>
                /\ callbacks'[i].id = Head(responses).id
                /\ callbacks'[i].status = Head(responses).status
                /\ callbacks'[i].output = Head(responses).output
                /\ callbacks'[i].id \in DOMAIN jobs \ DOMAIN jobs'
        /\ (job.pc = "idle" /\ job'.pc # "idle")
           => requests # <<>> /\ job'.id = Head(requests).id
        /\ Len(responses') > Len(responses)
           => /\ job.pc # "idle"
              /\ responses'[Len(responses')].id = job.id]_vars

\* after a restart of the evaluator, the callback of a request was called
\* with TERMINATED and the callback of a later one with a response of the
\* core, and no response is waiting
C34_Witness ==
  /\ evaluator = 2
  /\ \E i, j \in DOMAIN callbacks :
       /\ callbacks[i].status = TERMINATED
       /\ callbacks[j].status = SUCCESS
       /\ callbacks[j].id > callbacks[i].id
  /\ responses = <<>>

\* the wrapper tags in what the converter added for the whitespace before a
\* token, in order: "+" for a start tag and "-" for an end tag, with the name
\* of the element; unknown when it added anything else
wrapperTags(step) ==
  LET whitespace == concat(step.whitespace)
      indentation == "<indentation style=\"margin-left: "
                       \o ToString(countSpacesAfterFirstNewline(step.whitespace))
                       \o "ch;\"><blockcomment>"
  IN IF step.added = whitespace THEN <<>>
     ELSE IF step.added = whitespace \o "<toplevelcode><blockcode>"
     THEN <<<<"+", "toplevelcode">>, <<"+", "blockcode">>>>
     ELSE IF step.added = "</blockcode></toplevelcode>" \o whitespace
                            \o "<toplevelcode><blockcode>"
     THEN <<<<"-", "blockcode">>, <<"-", "toplevelcode">>,
            <<"+", "toplevelcode">>, <<"+", "blockcode">>>>
     ELSE IF step.added = "</blockcode></toplevelcode>" \o whitespace
     THEN <<<<"-", "blockcode">>, <<"-", "toplevelcode">>>>
     ELSE IF step.added = "</blockcode>" \o indentation \o whitespace
     THEN <<<<"-", "blockcode">>, <<"+", "indentation">>, <<"+", "blockcomment">>>>
     ELSE IF step.added = "</blockcomment></indentation><blockcode>" \o whitespace
     THEN <<<<"-", "blockcomment">>, <<"-", "indentation">>, <<"+", "blockcode">>>>
     ELSE <<<<"?", "unknown">>>>

RECURSIVE allWrapperTags(_)
\* the wrapper tags of the output, in order
allWrapperTags(tokens) ==
  IF tokens = <<>> THEN <<>>
  ELSE wrapperTags(Head(tokens)) \o allWrapperTags(Tail(tokens))

RECURSIVE wellNested(_, _)
\* every end tag closes the element opened last and not yet closed, and at the
\* end no element is open; open is the stack of the elements that are open
wellNested(tags, open) ==
  IF tags = <<>> THEN open = <<>>
  ELSE IF Head(tags)[1] = "+" THEN wellNested(Tail(tags), Append(open, Head(tags)[2]))
  ELSE /\ Head(tags)[1] = "-"
       /\ open # <<>>
       /\ open[Len(open)] = Head(tags)[2]
       /\ wellNested(Tail(tags), SubSeq(open, 1, Len(open) - 1))

\* C35: when convertEVLToXML succeeds, the wrapper tags that it has inserted
\* are balanced and properly nested: every end tag of toplevelcode,
\* blockcode, indentation and blockcomment closes the wrapper opened last and
\* still open, and every wrapper opened is closed before the end.
C35_WrapperTagsBalanced ==
  (call.f = "convertEVLToXML" /\ call.response.status = SUCCESS)
  => wellNested(allWrapperTags(call.response.tokens), <<>>)

RECURSIVE properlyNested(_, _)
\* the parentheses and the XML elements of a text made of ConvertPieces are
\* properly nested: every closing parenthesis closes a parenthesized form and
\* every end tag an element that is the construct opened last and still
\* open, and nothing is open at the end; open is the stack of the open
\* constructs
properlyNested(text, open) ==
  LET pop == SubSeq(open, 1, Len(open) - 1)
      rest(n) == SubSeq(text, n + 1, Len(text))
  IN IF text = <<>> THEN open = <<>>
     ELSE IF Head(text) = "(" THEN properlyNested(rest(1), Append(open, "("))
     ELSE IF Head(text) = ")"
     THEN open # <<>> /\ open[Len(open)] = "(" /\ properlyNested(rest(1), pop)
     ELSE IF Head(text) = "<" /\ text[2] = "/"
     THEN open # <<>> /\ open[Len(open)] = "<" /\ properlyNested(rest(4), pop)
     ELSE IF Head(text) = "<" /\ text[3] = "/" THEN properlyNested(rest(4), open)
     ELSE IF Head(text) = "<" THEN properlyNested(rest(3), Append(open, "<"))
     ELSE properlyNested(rest(1), open)

\* C36: convertEVLToXML succeeds only on a text whose parentheses and XML
\* elements are properly nested with respect to each other; on a text with a
\* closing parenthesis or an end tag that does not close the construct opened
\* last, or with a construct still open at the end, the conversion ends with
\* an error.
C36_ConvertSucceedsOnlyIfNested ==
  call.f = "convertEVLToXML" =>
    /\ call.response.status = SUCCESS => properlyNested(call.text, <<>>)
    /\ ~properlyNested(call.text, <<>>) => call.response.status = ERROR

\* the conversion of (<chapter>) has ended with an error: the closing
\* parenthesis is read while the element is open
C36_Witness ==
  /\ call.f = "convertEVLToXML"
  /\ call.text = <<"(", "<", "chapter", ">", ")">>
  /\ call.response.status = ERROR

\* the assignments that the evaluation of a text of ElementTexts makes, after
\* that of initializeFeatureList, in the order in which the reader completes
\* the forms that make them
elementAssignments(text) ==
  CASE text = TextElementOrder -> <<"*features*", "a", "b", "c">>
    [] text = TextElementError -> <<"*features*", "a">>
    [] text = TextElementInList -> <<"*features*", "b", "a">>
    [] text = TextElementNested -> <<"*features*", "a", "b">>

RECURSIVE spine(_)
\* the conses of the chain of cdrs of an object
spine(object) ==
  IF object.t = "cons" THEN <<object>> \o spine(object.cdr) ELSE <<>>

\* the values paired with the parameters are the first arguments, one for
\* each fixed parameter, and a proper list of the arguments that follow
restOfArguments(paired, nparameters, arguments) ==
  /\ Len(paired) = nparameters
  /\ SubSeq(paired, 1, nparameters - 1) = SubSeq(arguments, 1, nparameters - 1)
  /\ isProperList(paired[nparameters])
  /\ listToArray(paired[nparameters]) = SubSeq(arguments, nparameters, Len(arguments))

\* C38: in every pairing mode with a rest parameter, the rest parameter is
\* bound to a proper list of exactly the arguments beyond the fixed
\* parameters, in order (with apply, the arguments are the operands before
\* the last followed by the elements of the last); in a call without apply
\* every cons of this list is newly allocated, none is a cons that a list
\* held before the call.
C38_RestIsFreshListOfRemainingArguments ==
  (call.f = "pairClosureParameters" /\ call.rest)
  => LET args == bothCalls(numbered(call.n, 0), call.list)
         elements == [i \in DOMAIN spine(call.list) |-> spine(call.list)[i].car]
         nparameters == call.arity[1]
     IN /\ call.apply.ok
           => restOfArguments(call.apply.v, nparameters, numbered(call.n, 0) \o elements)
        /\ call.direct.ok
           => restOfArguments(call.direct.v, nparameters, args.direct)
        /\ call.plain.ok
           => /\ restOfArguments(call.plain.v, nparameters,
                                 Append(numbered(call.n, 0), held(call.list, 1)))
              /\ \A i \in DOMAIN spine(call.plain.v[nparameters]) :
                   "at" \notin DOMAIN spine(call.plain.v[nparameters])[i]

============================================================================
